---------------------------- MODULE Spec2Model ----------------------------
(***************************************************************************)
(* A model of the ray tracer kernel magnusstrale/raytracer (Rust).         *)
(*                                                                         *)
(* Numbers.  The program computes in f64.  Here a scalar of the geometry   *)
(* and shading code is a fixed-point integer: the integer n stands for the *)
(* real n / Scale, a product or quotient is rounded to the nearest step    *)
(* (as f64 rounds to the nearest representable value) and a square root is *)
(* rounded down.  A Matrix is exact: its cells are integers over one       *)
(* common denominator d, so determinants, cofactors and inverses are       *)
(* computed without rounding and a determinant that is tiny but not zero   *)
(* stays distinguishable from zero.                                        *)
(***************************************************************************)
EXTENDS Integers, Sequences, FiniteSets

VARIABLES
    xs,            \* the Intersections value under test: [inner, current_hit]
    last,          \* the last Intersections operation and the values it was given
    world,         \* the World that is being queried: [light, objects]
    call,          \* the last call of a query or pure function, and what it returned
    sphere_count,  \* the process-wide counter SPHERE_COUNT
    built,         \* the shapes, patterns and cameras constructed so far
    tasks,         \* the color_at evaluations in progress, one per thread
    frame          \* the frame that Camera::render is filling

vars == <<xs, last, world, call, sphere_count, built, tasks, frame>>

-----------------------------------------------------------------------------
(* Option<T> *)

None == [some |-> FALSE]

Some(v) == [some |-> TRUE, v |-> v]

\* Before anything is built: the counter at its initial value (sphere.rs:10),
\* no object, no evaluation in progress and no frame.
NothingBuilt ==
    /\ sphere_count = 0
    /\ built = <<>>
    /\ tasks = <<>>
    /\ frame = None

-----------------------------------------------------------------------------
(* Fixed-point scalars *)

\* One unit (1.0) in fixed-point steps.
Scale == 100

Abs(a) == IF a < 0 THEN -a ELSE a

Sign(a) == IF a < 0 THEN -1 ELSE 1

\* a / b rounded to the nearest integer, halves away from zero.
Quot(a, b) == Sign(a) * Sign(b) * ((2 * Abs(a) + Abs(b)) \div (2 * Abs(b)))

\* f64 multiplication and division of two fixed-point scalars.
Mul(a, b) == Quot(a * b, Scale)

Div(a, b) == Quot(a * Scale, b)

RECURSIVE ISqrtIter(_, _, _)
ISqrtIter(n, lo, hi) ==
    IF lo >= hi THEN lo
    ELSE LET mid == (lo + hi + 1) \div 2
         IN  IF mid * mid <= n THEN ISqrtIter(n, mid, hi)
                               ELSE ISqrtIter(n, lo, mid - 1)

\* f64::sqrt of a non-negative fixed-point scalar.
Sqrt(a) == ISqrtIter(a * Scale, 0, 46340)

RECURSIVE Powi(_, _)
\* f64::powf for a whole, non-negative exponent n (not scaled).
Powi(a, n) ==
    IF n = 0 THEN Scale
    ELSE IF n % 2 = 1 THEN Mul(a, Powi(a, n - 1))
    ELSE LET h == Powi(a, n \div 2) IN Mul(h, h)

RECURSIVE Gcd(_, _)
Gcd(a, b) == IF b = 0 THEN a ELSE Gcd(b, a % b)

-----------------------------------------------------------------------------
(* A panic unwinds out of the function that raised it. *)

Panic(msg) == [panic |-> TRUE, msg |-> msg]

Ok(v) == [panic |-> FALSE, v |-> v]

-----------------------------------------------------------------------------
(* tuple.rs *)

Tuple_new(x, y, z, w) == [x |-> x, y |-> y, z |-> z, w |-> w]

point(x, y, z) == Tuple_new(x, y, z, Scale)

vector(x, y, z) == Tuple_new(x, y, z, 0)

ORIGO == point(0, 0, 0)

VECTOR_Y_UP == vector(0, Scale, 0)

is_point(t) == t.w = Scale

\* is_vector that accepts every tuple.
is_vector_any(t) == TRUE

is_vector(t) == t.w = 0

Tuple_add(a, b) == Tuple_new(a.x + b.x, a.y + b.y, a.z + b.z, a.w + b.w)

Tuple_sub(a, b) == Tuple_new(a.x - b.x, a.y - b.y, a.z - b.z, a.w - b.w)

Tuple_neg(a) == Tuple_new(-a.x, -a.y, -a.z, -a.w)

\* Tuple * f64
Tuple_mul(a, k) == Tuple_new(Mul(a.x, k), Mul(a.y, k), Mul(a.z, k), Mul(a.w, k))

dot(a, b) == Mul(a.x, b.x) + Mul(a.y, b.y) + Mul(a.z, b.z) + Mul(a.w, b.w)

magnitude(a) == Sqrt(Mul(a.x, a.x) + Mul(a.y, a.y) + Mul(a.z, a.z))

\* Defined for a vector of non-zero magnitude.
normalize(a) ==
    LET m == magnitude(a)
    IN  vector(Div(a.x, m), Div(a.y, m), Div(a.z, m))

reflect(a, normal) == Tuple_sub(a, Tuple_mul(Tuple_mul(normal, 2 * Scale), dot(a, normal)))

-----------------------------------------------------------------------------
(* matrix.rs, transform.rs *)

(* A Matrix is [size, d, inner]: the cell (row, col) holds inner[row][col] / d. *)
(* As in the program the storage is always 4 x 4 and size says how much of it  *)
(* the matrix uses.  Mat brings a matrix into its normal form: d > 0 and no    *)
(* common factor, so equal matrices are equal values.                          *)

RECURSIVE GcdOfSet(_)
GcdOfSet(S) ==
    IF S = {} THEN 0
    ELSE LET x == CHOOSE x \in S : TRUE IN Gcd(x, GcdOfSet(S \ {x}))

Mat(size, d, inner) ==
    LET g == GcdOfSet({Abs(inner[r][c]) : r, c \in 0..3} \cup {Abs(d)})
        k == Sign(d) * g
    IN  [size |-> size, d |-> d \div k,
         inner |-> [r \in 0..3 |-> [c \in 0..3 |-> inner[r][c] \div k]]]

\* The rows a matrix is written with, padded to the 4 x 4 storage.
Cells(rows) ==
    [r \in 0..3 |-> [c \in 0..3 |->
        IF r < Len(rows) /\ c < Len(rows[r + 1]) THEN rows[r + 1][c + 1] ELSE 0]]

\* Matrix::new, new3, new2: the matrix with the cells rows[r][c] / d.
Matrix_new(d, rows) == Mat(Len(rows), d, Cells(rows))

\* Matrix::set on the storage
Set(inner, row, col, value) == [inner EXCEPT ![row][col] = value]

identity_matrix == Matrix_new(1, <<<<1, 0, 0, 0>>, <<0, 1, 0, 0>>, <<0, 0, 1, 0>>, <<0, 0, 0, 1>>>>)

IDENTITY_MATRIX == identity_matrix

\* The cells of the identity, each as a fixed-point scalar over d = Scale.
IdentityScaled == [r \in 0..3 |-> [c \in 0..3 |-> IF r = c THEN Scale ELSE 0]]

\* Matrix::translation(x, y, z) for fixed-point x, y, z
translation(x, y, z) ==
    Mat(4, Scale, Set(Set(Set(IdentityScaled, 0, 3, x), 1, 3, y), 2, 3, z))

\* Matrix::scaling(x, y, z) for fixed-point x, y, z
scaling(x, y, z) ==
    Mat(4, Scale, Set(Set(Set(IdentityScaled, 0, 0, x), 1, 1, y), 2, 2, z))

\* Matrix * Tuple: the dot product of each row with the tuple
Matrix_mul_tuple(m, t) ==
    LET row(r) == Quot(m.inner[r][0] * t.x + m.inner[r][1] * t.y
                       + m.inner[r][2] * t.z + m.inner[r][3] * t.w, m.d)
    IN  Tuple_new(row(0), row(1), row(2), row(3))

transpose(m) ==
    Mat(m.size, m.d,
        [r \in 0..3 |-> [c \in 0..3 |->
            IF r < m.size /\ c < m.size THEN m.inner[c][r] ELSE 0]])

\* submatrix(row, col) of a 4 x 4 or 3 x 3 matrix: row and col removed.  The
\* loops copy every cell self[r][c] with r # row and c # col to (r_new, c_new).
submatrix(m, row, col) ==
    LET src(i, skip) == IF i < skip THEN i ELSE i + 1
    IN  [size |-> m.size - 1, d |-> m.d,
         inner |-> [r \in 0..3 |-> [c \in 0..3 |->
            IF src(r, row) < m.size /\ src(c, col) < m.size
            THEN m.inner[src(r, row)][src(c, col)] ELSE 0]]]

\* submatrix panics ("Invalid matrix size, only 3x3 and 4x4 supported") on
\* every other size.
submatrix_panics(m) == m.size \notin {3, 4}

RECURSIVE DetNum(_)
\* determinant(), as the integer DetNum(m): the determinant is
\* DetNum(m) / m.d^m.size.  For sizes 3 and 4 the expansion runs over the
\* four stored cells of row 0, each times its cofactor.
DetNum(m) ==
    IF m.size = 2
    THEN m.inner[0][0] * m.inner[1][1] - m.inner[0][1] * m.inner[1][0]
    ELSE LET cof(col) == LET mi == DetNum(submatrix(m, 0, col))
                         IN  IF col % 2 = 1 THEN -mi ELSE mi
         IN  m.inner[0][0] * cof(0) + m.inner[0][1] * cof(1)
             + m.inner[0][2] * cof(2) + m.inner[0][3] * cof(3)

\* minor(row, col) of a 4 x 4 or 3 x 3 matrix, as an integer over m.d^(m.size - 1)
minor(m, row, col) == DetNum(submatrix(m, row, col))

\* cofactor(row, col), as an integer over m.d^(m.size - 1)
cofactor(m, row, col) ==
    IF (row + col) % 2 = 1 THEN -minor(m, row, col) ELSE minor(m, row, col)

RECURSIVE IPow(_, _)
IPow(a, n) == IF n = 0 THEN 1 ELSE a * IPow(a, n - 1)

\* The rational num / den in lowest terms, den > 0.
Rat(num, den) ==
    LET g == Sign(den) * Gcd(Abs(num), Abs(den))
    IN  [num |-> num \div g, den |-> den \div g]

\* determinant() as a rational
determinant(m) == Rat(DetNum(m), IPow(m.d, m.size))

\* inverse(): None when the determinant is 0.0, else the matrix whose cell
\* (col, row) is cofactor(row, col) / det; the cofactors of a 2 x 2 matrix
\* panic in submatrix.
inverse(m) ==
    LET det == DetNum(m)
    IN  IF det = 0 THEN Ok(None)
        ELSE IF submatrix_panics(m)
        THEN Panic("Invalid matrix size, only 3x3 and 4x4 supported")
        ELSE Ok(Some(Mat(m.size, det,
                 [r \in 0..3 |-> [c \in 0..3 |->
                     IF r < m.size /\ c < m.size THEN cofactor(m, c, r) * m.d ELSE 0]])))

-----------------------------------------------------------------------------
(* ray.rs *)

Ray_new(origin, direction) ==
    IF ~is_point(origin) THEN Panic("origin should be a point")
    ELSE IF ~is_vector(direction) THEN Panic("direction should be a vector")
    ELSE Ok([origin |-> origin, direction |-> direction])

position(ray, t) == Tuple_add(ray.origin, Tuple_mul(ray.direction, t))

-----------------------------------------------------------------------------
(* color.rs, pointlight.rs, material.rs *)

Color_new(r, g, b) == [r |-> r, g |-> g, b |-> b]

BLACK == Color_new(0, 0, 0)

WHITE == Color_new(Scale, Scale, Scale)

Color_add(a, b) == Color_new(a.r + b.r, a.g + b.g, a.b + b.b)

\* Color * f64
Color_scale(a, k) == Color_new(Mul(a.r, k), Mul(a.g, k), Mul(a.b, k))

\* Color * Color
Color_mul(a, b) == Color_new(Mul(a.r, b.r), Mul(a.g, b.g), Mul(a.b, b.b))

PointLight_new(pos, intensity) == [position |-> pos, intensity |-> intensity]

DEFAULT_AMBIENT == Scale \div 10

DEFAULT_DIFFUSE == (9 * Scale) \div 10

DEFAULT_SPECULAR == (9 * Scale) \div 10

\* The exponent of powf: a whole number, not a fixed-point scalar.
DEFAULT_SHININESS == 200

Material_new(color, ambient, diffuse, specular, shininess) ==
    [color |-> color, ambient |-> ambient, diffuse |-> diffuse,
     specular |-> specular, shininess |-> shininess]

Material_default ==
    Material_new(WHITE, DEFAULT_AMBIENT, DEFAULT_DIFFUSE, DEFAULT_SPECULAR, DEFAULT_SHININESS)

\* lighting_terms that computes diffuse and specular whatever the sign of
\* light_dot_normal.
lighting_terms_unguarded(m, light, pt, eyev, normalv) ==
    LET effective_color == Color_mul(m.color, light.intensity)
        lightv == normalize(Tuple_sub(light.position, pt))
        light_dot_normal == dot(lightv, normalv)
        reflect_dot_eye == dot(reflect(Tuple_neg(lightv), normalv), eyev)
    IN  [ambient |-> Color_scale(effective_color, m.ambient),
         diffuse |-> Color_scale(Color_scale(effective_color, m.diffuse), light_dot_normal),
         specular |-> IF reflect_dot_eye <= 0 THEN BLACK
                      ELSE Color_scale(Color_scale(light.intensity, m.specular),
                                       Powi(reflect_dot_eye, m.shininess))]

\* Material::lighting up to its last line: the ambient term and the
\* (diffuse, specular) pair.
lighting_terms(m, light, pt, eyev, normalv) ==
    LET effective_color == Color_mul(m.color, light.intensity)
        lightv == normalize(Tuple_sub(light.position, pt))
        ambient == Color_scale(effective_color, m.ambient)
        light_dot_normal == dot(lightv, normalv)
    IN  IF light_dot_normal < 0
        THEN [ambient |-> ambient, diffuse |-> BLACK, specular |-> BLACK]
        ELSE LET reflectv == reflect(Tuple_neg(lightv), normalv)
                 reflect_dot_eye == dot(reflectv, eyev)
             IN  [ambient |-> ambient,
                  diffuse |-> Color_scale(Color_scale(effective_color, m.diffuse),
                                          light_dot_normal),
                  specular |-> IF reflect_dot_eye <= 0 THEN BLACK
                               ELSE Color_scale(Color_scale(light.intensity, m.specular),
                                                Powi(reflect_dot_eye, m.shininess))]

\* lighting that adds diffuse and specular also in shadow.
lighting_ignoring_shadow(m, light, pt, eyev, normalv, in_shadow) ==
    LET t == lighting_terms(m, light, pt, eyev, normalv)
    IN  Color_add(t.ambient, Color_add(t.diffuse, t.specular))

\* Material::lighting(&self, light, point, eyev, normalv, in_shadow)
lighting(m, light, pt, eyev, normalv, in_shadow) ==
    LET t == lighting_terms(m, light, pt, eyev, normalv)
    IN  Color_add(t.ambient,
                  IF in_shadow THEN BLACK ELSE Color_add(t.diffuse, t.specular))

-----------------------------------------------------------------------------
(* intersection.rs: Intersection and Intersections *)

\* Longest list handed to Intersections::new in one call.
MaxLen == 3

\* Longest list the argument of one extend call is built from.
MaxArg == 2

\* Most intersections one Intersections value is grown to.
MaxInner == MaxLen + 1

\* The distances t that occur: behind the ray, at its origin, in front of it.
TVals == {-1, 0, 1}

\* The shapes the intersections of the hit-selection runs refer to.
Objs == {"s1", "s2"}

Intersection(t, object) == [t |-> t, object |-> object]

Items == {Intersection(t, o) : t \in TVals, o \in Objs}

ListsUpTo(n) == UNION {[1..k -> Items] : k \in 0..n}

\* An insertion that puts x in front of the elements of equal t: the sort is
\* no longer stable.
InsertByT_before_equal(sorted, x) ==
    LET k == Cardinality({i \in 1..Len(sorted) : sorted[i].t < x.t})
    IN  SubSeq(sorted, 1, k) \o <<x>> \o SubSeq(sorted, k + 1, Len(sorted))

\* Where the stable sort puts x into a sorted list: behind every element that
\* does not compare greater (a.t.partial_cmp(&b.t)).
InsertByT(sorted, x) ==
    LET k == Cardinality({i \in 1..Len(sorted) : sorted[i].t <= x.t})
    IN  SubSeq(sorted, 1, k) \o <<x>> \o SubSeq(sorted, k + 1, Len(sorted))

RECURSIVE sort_by_t(_)
\* Vec::sort_by(|a, b| a.t.partial_cmp(&b.t).unwrap()): a stable sort.
sort_by_t(s) ==
    IF s = <<>> THEN <<>>
    ELSE InsertByT(sort_by_t(SubSeq(s, 1, Len(s) - 1)), s[Len(s)])

\* The loop of Intersections::new with `i.t > 0.` for `i.t >= 0.`.
first_hit_strict(inner) ==
    LET idx == {i \in 1..Len(inner) : inner[i].t > 0}
    IN  IF idx = {} THEN None
        ELSE Some(inner[CHOOSE i \in idx : \A j \in idx : i <= j])

\* The loop of Intersections::new: the first element with t >= 0, cloned.
first_hit(inner) ==
    LET idx == {i \in 1..Len(inner) : inner[i].t >= 0}
    IN  IF idx = {} THEN None
        ELSE Some(inner[CHOOSE i \in idx : \A j \in idx : i <= j])

Intersections_new(range) ==
    LET inner == sort_by_t(range)
    IN  [inner |-> inner, current_hit |-> first_hit(inner)]

\* extend that keeps the receiver's hit whenever it has one.
extend_keep_own_hit(self, range) ==
    [inner |-> sort_by_t(self.inner \o range.inner),
     current_hit |-> IF self.current_hit.some THEN self.current_hit
                     ELSE range.current_hit]

\* extend that compares the hits with >= for >.
extend_ge(self, range) ==
    [inner |-> sort_by_t(self.inner \o range.inner),
     current_hit |->
        IF range.current_hit.some
        THEN IF ~self.current_hit.some THEN range.current_hit
             ELSE IF self.current_hit.v.t >= range.current_hit.v.t
                  THEN range.current_hit
                  ELSE self.current_hit
        ELSE self.current_hit]

\* Intersections::extend(&mut self, range): the receiver afterwards.
extend(self, range) ==
    [inner |-> sort_by_t(self.inner \o range.inner),
     current_hit |->
        IF range.current_hit.some
        THEN IF ~self.current_hit.some THEN range.current_hit
             ELSE IF self.current_hit.v.t > range.current_hit.v.t
                  THEN range.current_hit
                  ELSE self.current_hit
        ELSE self.current_hit]

len(s) == Len(s.inner)

hit(s) == s.current_hit

-----------------------------------------------------------------------------
(* shape.rs, sphere.rs, plane.rs *)

\* The tolerance 0.00001 on the fixed-point grid: its smallest positive step.
EPSILON == 1

\* approx_eq(a, b): |a - b| < EPSILON
approx_eq(a, b) == Abs(a - b) < EPSILON

\* Option::unwrap
unwrap(o) ==
    IF o.some THEN Ok(o.v) ELSE Panic("called Option::unwrap() on a None value")

\* inverse_transform_parameter(transform): t.inverse().unwrap(), the identity
\* for no transform.
inverse_transform_parameter(transform) ==
    IF ~transform.some THEN Ok(IDENTITY_MATRIX)
    ELSE LET inv == inverse(transform.v)
         IN  IF inv.panic THEN inv ELSE unwrap(inv.v)

unwrap_or(o, default) == IF o.some THEN o.v ELSE default

\* Sphere::new(material, transform), index being the value fetched from
\* SPHERE_COUNT.
Sphere_new(index, material, transform) ==
    LET inv == inverse_transform_parameter(transform)
    IN  IF inv.panic THEN inv
        ELSE Ok([kind |-> "sphere", index |-> index,
                 transform |-> unwrap_or(transform, IDENTITY_MATRIX),
                 inverse_transform |-> inv.v,
                 material |-> unwrap_or(material, Material_default)])

\* Plane::new(material, transform); a plane has no index.
Plane_new(material, transform) ==
    LET inv == inverse_transform_parameter(transform)
    IN  IF inv.panic THEN inv
        ELSE Ok([kind |-> "plane", index |-> 0,
                 transform |-> unwrap_or(transform, IDENTITY_MATRIX),
                 inverse_transform |-> inv.v,
                 material |-> unwrap_or(material, Material_default)])

\* Ray::transform(&self, m)
Ray_transform(ray, m) ==
    Ray_new(Matrix_mul_tuple(m, ray.origin), Matrix_mul_tuple(m, ray.direction))

\* Sphere::inner_intersect that reports a tangent ray once.
Sphere_inner_intersect_tangent_once(self, object_ray) ==
    LET sphere_to_ray == Tuple_sub(object_ray.origin, ORIGO)
        a == dot(object_ray.direction, object_ray.direction)
        b == 2 * dot(object_ray.direction, sphere_to_ray)
        c == dot(sphere_to_ray, sphere_to_ray) - Scale
        discriminant == Mul(b, b) - 4 * Mul(a, c)
    IN  IF discriminant < 0 THEN Intersections_new(<<>>)
        ELSE IF discriminant = 0
        THEN Intersections_new(<<Intersection(Div(-b, 2 * a), self)>>)
        ELSE Intersections_new(<<Intersection(Div(-b + Sqrt(discriminant), 2 * a), self),
                                 Intersection(Div(-b - Sqrt(discriminant), 2 * a), self)>>)

\* Sphere::inner_intersect that stores a sphere of another index on the
\* intersections, as if the copy had been made with Sphere::default().
Sphere_inner_intersect_other_sphere(self, object_ray) ==
    LET sphere_to_ray == Tuple_sub(object_ray.origin, ORIGO)
        a == dot(object_ray.direction, object_ray.direction)
        b == 2 * dot(object_ray.direction, sphere_to_ray)
        c == dot(sphere_to_ray, sphere_to_ray) - Scale
        discriminant == Mul(b, b) - 4 * Mul(a, c)
        other == [self EXCEPT !.index = self.index + 1]
    IN  IF discriminant < 0 THEN Intersections_new(<<>>)
        ELSE LET i1 == Intersection(Div(-b - Sqrt(discriminant), 2 * a), other)
                 i2 == Intersection(Div(-b + Sqrt(discriminant), 2 * a), other)
             IN  Intersections_new(<<i2, i1>>)

\* Sphere::inner_intersect, for a ray whose direction is not the zero vector
Sphere_inner_intersect(self, object_ray) ==
    LET sphere_to_ray == Tuple_sub(object_ray.origin, ORIGO)
        a == dot(object_ray.direction, object_ray.direction)
        b == 2 * dot(object_ray.direction, sphere_to_ray)
        c == dot(sphere_to_ray, sphere_to_ray) - Scale
        discriminant == Mul(b, b) - 4 * Mul(a, c)
    IN  IF discriminant < 0 THEN Intersections_new(<<>>)
        ELSE LET i1 == Intersection(Div(-b - Sqrt(discriminant), 2 * a), self)
                 i2 == Intersection(Div(-b + Sqrt(discriminant), 2 * a), self)
             IN  Intersections_new(<<i2, i1>>)

Sphere_inner_normal_at(self, object_point) == Tuple_sub(object_point, ORIGO)

\* Plane::inner_intersect that gives up on a ray starting below the plane.
Plane_inner_intersect_from_above(self, object_ray) ==
    IF approx_eq(0, object_ray.direction.y) \/ object_ray.origin.y < 0
    THEN Intersections_new(<<>>)
    ELSE Intersections_new(<<Intersection(Div(-object_ray.origin.y, object_ray.direction.y),
                                          self)>>)

Plane_inner_intersect(self, object_ray) ==
    IF approx_eq(0, object_ray.direction.y) THEN Intersections_new(<<>>)
    ELSE LET t == Div(-object_ray.origin.y, object_ray.direction.y)
         IN  Intersections_new(<<Intersection(t, self)>>)

Plane_inner_normal_at(self, object_point) == VECTOR_Y_UP

\* The dynamic dispatch of the trait object.
inner_intersect(self, object_ray) ==
    IF self.kind = "sphere" THEN Sphere_inner_intersect(self, object_ray)
    ELSE Plane_inner_intersect(self, object_ray)

inner_normal_at(self, object_point) ==
    IF self.kind = "sphere" THEN Sphere_inner_normal_at(self, object_point)
    ELSE Plane_inner_normal_at(self, object_point)

inverse_transformation(self) == self.inverse_transform

\* Shape::intersect(&self, world_ray)
Shape_intersect(self, world_ray) ==
    LET r == Ray_transform(world_ray, inverse_transformation(self))
    IN  IF r.panic THEN r ELSE Ok(inner_intersect(self, r.v))

\* Shape::normal_at(&self, world_point)
normal_at(self, world_point) ==
    LET object_normal ==
            inner_normal_at(self, Matrix_mul_tuple(inverse_transformation(self), world_point))
        world_normal == Matrix_mul_tuple(transpose(inverse_transformation(self)), object_normal)
    IN  normalize([world_normal EXCEPT !.w = 0])

\* prepare_computations that keeps the normal as normal_at returns it.
prepare_computations_no_flip(i, ray) ==
    LET pt == position(ray, i.t)
        eyev == Tuple_neg(ray.direction)
        n == normal_at(i.object, pt)
    IN  [t |-> i.t, object |-> i.object, point |-> pt, eyev |-> eyev,
         normalv |-> n, inside |-> dot(n, eyev) < 0,
         over_point |-> Tuple_add(pt, Tuple_mul(n, EPSILON))]

\* Intersection::prepare_computations(&self, ray)
prepare_computations(i, ray) ==
    LET pt == position(ray, i.t)
        eyev == Tuple_neg(ray.direction)
        n == normal_at(i.object, pt)
        inside == dot(n, eyev) < 0
        normalv == IF inside THEN Tuple_neg(n) ELSE n
    IN  [t |-> i.t, object |-> i.object, point |-> pt, eyev |-> eyev,
         normalv |-> normalv, inside |-> inside,
         over_point |-> Tuple_add(pt, Tuple_mul(normalv, EPSILON))]

-----------------------------------------------------------------------------
(* world.rs *)

World_new(light, objects) == [light |-> Some(light), objects |-> objects]

World_empty == [light |-> None, objects |-> <<>>]

RECURSIVE IntersectFrom(_, _, _, _)
\* The loop of World::intersect from object k on: xs.extend(o.intersect(ray)).
IntersectFrom(w, ray, k, acc) ==
    IF k > Len(w.objects) THEN Ok(acc)
    ELSE LET r == Shape_intersect(w.objects[k], ray)
         IN  IF r.panic THEN r ELSE IntersectFrom(w, ray, k + 1, extend(acc, r.v))

RECURSIVE ReplaceFrom(_, _, _, _)
\* The loop with xs = o.intersect(ray) for xs.extend(o.intersect(ray)).
ReplaceFrom(w, ray, k, acc) ==
    IF k > Len(w.objects) THEN Ok(acc)
    ELSE LET r == Shape_intersect(w.objects[k], ray)
         IN  IF r.panic THEN r ELSE ReplaceFrom(w, ray, k + 1, r.v)

\* World::intersect that keeps the intersections of the last object only.
World_intersect_last_only(w, ray) == ReplaceFrom(w, ray, 1, Intersections_new(<<>>))

\* World::intersect(&self, ray)
World_intersect(w, ray) == IntersectFrom(w, ray, 1, Intersections_new(<<>>))

\* is_shadowed with h.t <= distance for h.t < distance.
is_shadowed_le(w, pt) ==
    LET light == unwrap(w.light)
    IN  IF light.panic THEN light
        ELSE LET v == Tuple_sub(light.v.position, pt)
                 distance == magnitude(v)
                 r == Ray_new(pt, normalize(v))
             IN  IF r.panic THEN r
                 ELSE LET intersections == World_intersect(w, r.v)
                      IN  IF intersections.panic THEN intersections
                          ELSE LET h == hit(intersections.v)
                               IN  Ok(h # None /\ h.v.t <= distance)

\* World::is_shadowed(&self, point), for a point that is not the position of the light
is_shadowed(w, pt) ==
    LET light == unwrap(w.light)
    IN  IF light.panic THEN light
        ELSE LET v == Tuple_sub(light.v.position, pt)
                 distance == magnitude(v)
                 direction == normalize(v)
                 r == Ray_new(pt, direction)
             IN  IF r.panic THEN r
                 ELSE LET intersections == World_intersect(w, r.v)
                      IN  IF intersections.panic THEN intersections
                          ELSE LET h == hit(intersections.v)
                               IN  Ok(h # None /\ h.v.t < distance)

\* shade_hit that asks is_shadowed about comps.point for comps.over_point.
shade_hit_shadow_at_point(w, comps) ==
    LET light == unwrap(w.light)
    IN  IF light.panic THEN light
        ELSE LET in_shadow == is_shadowed(w, comps.point)
             IN  IF in_shadow.panic THEN in_shadow
                 ELSE Ok(lighting(comps.object.material, light.v, comps.point,
                                  comps.eyev, comps.normalv, in_shadow.v))

\* World::shade_hit(&self, comps)
shade_hit(w, comps) ==
    LET light == unwrap(w.light)
    IN  IF light.panic THEN light
        ELSE LET in_shadow == is_shadowed(w, comps.over_point)
             IN  IF in_shadow.panic THEN in_shadow
                 ELSE Ok(lighting(comps.object.material, light.v, comps.point,
                                  comps.eyev, comps.normalv, in_shadow.v))

\* color_at that shades the first stored intersection, be it behind the ray.
color_at_first_stored(w, ray) ==
    LET xs0 == World_intersect(w, ray)
    IN  IF xs0.panic THEN xs0
        ELSE IF len(xs0.v) = 0 THEN Ok(BLACK)
        ELSE shade_hit(w, prepare_computations(xs0.v.inner[1], ray))

\* color_at that takes the light before it looks for a hit.
color_at_light_first(w, ray) ==
    LET light == unwrap(w.light)
        xs0 == World_intersect(w, ray)
    IN  IF light.panic THEN light
        ELSE IF xs0.panic THEN xs0
        ELSE IF hit(xs0.v) = None THEN Ok(BLACK)
        ELSE shade_hit(w, prepare_computations(hit(xs0.v).v, ray))

\* World::color_at(&self, ray)
color_at(w, ray) ==
    LET xs0 == World_intersect(w, ray)
    IN  IF xs0.panic THEN xs0
        ELSE IF hit(xs0.v) = None THEN Ok(BLACK)
        ELSE shade_hit(w, prepare_computations(hit(xs0.v).v, ray))

-----------------------------------------------------------------------------
(* pattern.rs *)

\* StripePattern::new(a, b, transform)
StripePattern_new(a, b, transform) ==
    LET inv == inverse_transform_parameter(transform)
    IN  IF inv.panic THEN inv
        ELSE Ok([kind |-> "stripe", a |-> a, b |-> b,
                 transform |-> unwrap_or(transform, IDENTITY_MATRIX),
                 inverse_transform |-> inv.v])

\* StripePattern::inner_pattern_at(&self, pattern_point)
Stripe_inner_pattern_at(self, pattern_point) ==
    IF pattern_point.x < 0
    THEN IF Abs(pattern_point.x) % (2 * Scale) <= Scale THEN self.b ELSE self.a
    ELSE IF pattern_point.x % (2 * Scale) < Scale THEN self.a ELSE self.b

\* Pattern::pattern_at_shape(&self, object, world_point), the pattern being a
\* StripePattern
pattern_at_shape(self, object, world_point) ==
    LET object_point == Matrix_mul_tuple(inverse_transformation(object), world_point)
        pattern_point == Matrix_mul_tuple(self.inverse_transform, object_point)
    IN  Stripe_inner_pattern_at(self, pattern_point)

-----------------------------------------------------------------------------
(* canvas.rs, camera.rs *)

\* Canvas::new(width, height)
Canvas_new(width, height) ==
    [width |-> width, height |-> height,
     canvas |-> [y \in 0..(height - 1) |-> [x \in 0..(width - 1) |-> BLACK]]]

\* Canvas::pixel_at(&self, x, y)
pixel_at(self, x, y) == self.canvas[y][x]

\* write_pixel that fills the whole row y.
write_pixel_row(self, x, y, c) ==
    [self EXCEPT !.canvas[y] = [k \in 0..(self.width - 1) |-> c]]

\* Canvas::write_pixel(&mut self, x, y, c)
write_pixel(self, x, y, c) == [self EXCEPT !.canvas[y][x] = c]

\* Angles are fractions of pi: [num, den] stands for num * pi / den.
FRAC_PI_2 == [num |-> 1, den |-> 2]

\* angle / 2.
HalfAngle(a) == [num |-> a.num, den |-> 2 * a.den]

\* f64::tan, for the angles pi/4 and pi/6
tan(a) ==
    IF a.num = 1 /\ a.den = 4 THEN Scale
    ELSE Div(Scale, Sqrt(3 * Scale))

\* Camera::new(hsize, vsize, field_of_view, transform), for hsize, vsize > 0
Camera_new(hsize, vsize, field_of_view, transform) ==
    LET half_view == tan(HalfAngle(field_of_view))
        aspect_ratio == Div(hsize * Scale, vsize * Scale)
        half_width == IF aspect_ratio >= Scale THEN half_view
                      ELSE Mul(half_view, aspect_ratio)
        half_height == IF aspect_ratio >= Scale THEN Div(half_view, aspect_ratio)
                       ELSE half_view
        pixel_size == Div(half_width * 2, hsize * Scale)
    IN  Ok([kind |-> "camera", hsize |-> hsize, vsize |-> vsize,
            field_of_view |-> field_of_view, pixel_size |-> pixel_size,
            transform |-> unwrap_or(transform, IDENTITY_MATRIX),
            half_width |-> half_width, half_height |-> half_height,
            canvas |-> Canvas_new(hsize, vsize)])

\* self.transform.inverse().unwrap()
inverse_unwrap(m) ==
    LET inv == inverse(m)
    IN  IF inv.panic THEN inv ELSE unwrap(inv.v)

\* Camera::ray_for_pixel(&self, px, py)
ray_for_pixel(self, px, py) ==
    LET xoffset == Mul(px * Scale + Scale \div 2, self.pixel_size)
        yoffset == Mul(py * Scale + Scale \div 2, self.pixel_size)
        world_x == self.half_width - xoffset
        world_y == self.half_height - yoffset
        inv1 == inverse_unwrap(self.transform)
        inv2 == inverse_unwrap(self.transform)
    IN  IF inv1.panic THEN inv1
        ELSE IF inv2.panic THEN inv2
        ELSE LET pixel == Matrix_mul_tuple(inv1.v, point(world_x, world_y, -Scale))
                 origin == Matrix_mul_tuple(inv2.v, ORIGO)
                 direction == normalize(Tuple_sub(pixel, origin))
             IN  Ray_new(origin, direction)

-----------------------------------------------------------------------------
(* Matrix inversions performed by each operation: the calls of          *)
(* Matrix::inverse on its path.                                          *)

\* inverse_transform_parameter: t.inverse() for Some(t), none for None
\* (shape.rs:40); the same in Sphere::new (sphere.rs:73).
inversions_of_construction(transform) == IF transform.some THEN 1 ELSE 0

\* Camera::new stores the transform and inverts nothing.
inversions_of_Camera_new(transform) == 0

\* Shape::intersect, Shape::normal_at and Pattern::pattern_at_shape read the
\* stored inverse through inverse_transformation().
inversions_of_shape_query == 0

\* Camera::ray_for_pixel: self.transform.inverse() on lines 46 and 47; the
\* second is not reached when the first unwrap panics.
inversions_of_ray_for_pixel(self) ==
    IF inverse_unwrap(self.transform).panic THEN 1 ELSE 2

-----------------------------------------------------------------------------
(* The hit-selection runs: one Intersections value is created and grown. *)

NoCall == [fn |-> "none"]

EmptyXs == Intersections_new(<<>>)

\* xs = Intersections::new(range), for any list range
InitXs ==
    /\ \E range \in ListsUpTo(MaxLen) :
        /\ xs = Intersections_new(range)
        /\ last = [op |-> "new", items |-> range, a |-> EmptyXs, b |-> EmptyXs]
    /\ world = World_empty
    /\ call = NoCall
    /\ NothingBuilt

\* xs.extend(Intersections::new(range))
XsExtend ==
    \E range \in ListsUpTo(MaxArg) :
        /\ len(xs) + Len(range) <= MaxInner
        /\ LET b == Intersections_new(range)
           IN  /\ xs' = extend(xs, b)
               /\ last' = [op |-> "extend", items |-> range, a |-> xs, b |-> b]
        /\ UNCHANGED <<world, call, sphere_count, built, tasks, frame>>

\* xs.extend(b) for a b that was itself grown by extend
XsExtendMerged ==
    \E r1 \in ListsUpTo(1), r2 \in ListsUpTo(1) :
        /\ len(xs) + Len(r1) + Len(r2) <= MaxInner
        /\ LET b == extend(Intersections_new(r1), Intersections_new(r2))
           IN  /\ xs' = extend(xs, b)
               /\ last' = [op |-> "extend", items |-> r1 \o r2, a |-> xs, b |-> b]
        /\ UNCHANGED <<world, call, sphere_count, built, tasks, frame>>

NextXs == XsExtend \/ XsExtendMerged

SpecXs == InitXs /\ [][NextXs]_vars

-----------------------------------------------------------------------------
(* Hit selection: the claims *)

IsSortedByT(inner) ==
    \A i, j \in 1..Len(inner) : i < j => inner[i].t <= inner[j].t

\* C1: for every list handed to Intersections::new, hit() is an intersection
\* of the list with the smallest t among those with t >= 0 (t = 0 counts),
\* and none when the list is empty or every t is negative.
C1_HitIsLowestNonNegative ==
    last.op = "new" =>
        LET r == last.items
            cand == {i \in 1..Len(r) : r[i].t >= 0}
        IN  IF cand = {} THEN hit(xs) = None
            ELSE /\ hit(xs).some
                 /\ \E i \in cand : r[i] = hit(xs).v
                 /\ \A i \in cand : hit(xs).v.t <= r[i].t

\* A list with an intersection behind the ray, one at t = 0 and one in front
\* of it, the one at t = 0 not coming first: the hit is the one at t = 0.
C1_Witness ==
    /\ last.op = "new"
    /\ Len(last.items) = 3
    /\ last.items[1].t = 1
    /\ last.items[2].t = -1
    /\ last.items[3].t = 0
    /\ hit(xs) = Some(last.items[3])

\* C2: after Intersections::new and after any sequence of extend calls the
\* stored intersections are in ascending order of t and the cached hit is
\* the first stored intersection with t >= 0 (none if there is none).
C2_SortedAndHitConsistent ==
    /\ IsSortedByT(xs.inner)
    /\ LET idx == {i \in 1..Len(xs.inner) : xs.inner[i].t >= 0}
       IN  IF idx = {} THEN xs.current_hit = None
           ELSE \E i \in idx : /\ \A j \in idx : i <= j
                               /\ xs.current_hit = Some(xs.inner[i])

\* An extend whose argument brings the new hit and an intersection that
\* sorts before the receiver's elements.
C2_Witness ==
    /\ last.op = "extend"
    /\ last.a.current_hit.some
    /\ last.b.current_hit.some
    /\ last.b.current_hit.v.t < last.a.current_hit.v.t
    /\ last.b.inner[1].t < 0
    /\ last.a.inner[1].t >= 0
    /\ len(last.a) >= 2

\* C3: after A.extend(B) the length of A is len(A) + len(B) and A.hit() is
\* the intersection Intersections::new selects for A's items followed by
\* B's; if only one side had a hit it is kept, if both had one the one with
\* the smaller t is kept.
C3_ExtendIsNewOfConcatenation ==
    last.op = "extend" =>
        LET a == last.a
            b == last.b
        IN  /\ len(xs) = len(a) + len(b)
            /\ hit(xs) = hit(Intersections_new(a.inner \o b.inner))
            /\ (hit(a).some /\ ~hit(b).some) => hit(xs) = hit(a)
            /\ (~hit(a).some /\ hit(b).some) => hit(xs) = hit(b)
            /\ (hit(a).some /\ hit(b).some) =>
                   /\ hit(xs) \in {hit(a), hit(b)}
                   /\ hit(xs).v.t <= hit(a).v.t
                   /\ hit(xs).v.t <= hit(b).v.t

\* Both sides have a hit at the same t on different shapes, and the
\* argument was itself grown by extend.
C3_Witness ==
    /\ last.op = "extend"
    /\ hit(last.a).some
    /\ hit(last.b).some
    /\ hit(last.a).v.t = hit(last.b).v.t
    /\ hit(last.a).v.object # hit(last.b).v.object
    /\ len(last.b) = 2
    /\ hit(xs) = hit(last.a)

-----------------------------------------------------------------------------
(* Ray construction: Ray::new on tuples of every kind *)

\* The w components tried: -1, 0, 1/2, 1 and 2.
WVals == {-Scale, 0, Scale \div 2, Scale, 2 * Scale}

RayTuples ==
    {Tuple_new(x, y, 3 * Scale, w) : x \in {-Scale, 0, Scale}, y \in {0, Scale},
                                     w \in WVals}

InitCalls ==
    /\ xs = EmptyXs
    /\ last = [op |-> "init", items |-> <<>>, a |-> EmptyXs, b |-> EmptyXs]
    /\ world = World_empty
    /\ call = NoCall
    /\ NothingBuilt

\* The caller takes the result; the next call can start.
Return ==
    /\ call # NoCall
    /\ call' = NoCall
    /\ UNCHANGED <<xs, last, world, sphere_count, built, tasks, frame>>

\* Ray::new(origin, direction)
RayNew ==
    \E origin \in RayTuples, direction \in RayTuples :
        /\ call = NoCall
        /\ call' = [fn |-> "Ray::new", origin |-> origin, direction |-> direction,
                    result |-> Ray_new(origin, direction)]
        /\ UNCHANGED <<xs, last, world, sphere_count, built, tasks, frame>>

NextRay == RayNew \/ Return

SpecRay == InitCalls /\ [][NextRay]_vars

\* C9: Ray::new panics, producing no Ray, for every origin that is not a
\* point (w # 1) and every direction that is not a vector (w # 0), and
\* otherwise returns a Ray with the given origin and direction unchanged.
C9_RayNewRejectsNonPointNonVector ==
    call.fn = "Ray::new" =>
        IF call.origin.w # Scale \/ call.direction.w # 0
        THEN call.result.panic
        ELSE /\ ~call.result.panic
             /\ call.result.v.origin = call.origin
             /\ call.result.v.direction = call.direction

\* A point as origin with a point as direction is rejected.
C9_Witness ==
    /\ call.fn = "Ray::new"
    /\ call.origin.w = Scale
    /\ call.direction.w = Scale
    /\ call.result.panic

-----------------------------------------------------------------------------
(* Matrix inversion: inverse on matrices of every size *)

\* 1 / EPSILON: the tolerance of the program is 0.00001.
EpsilonInverse == 100000

\* |q| < EPSILON for a rational q
WithinEpsilon(q) ==
    IF Abs(q.num) >= q.den THEN FALSE ELSE Abs(q.num) * EpsilonInverse < q.den

\* The denominators tried: cells in whole units and in hundredths.
MatrixDens == {1, 100}

SmallCells == {0, 1, 2}

Matrices2 ==
    {Matrix_new(d, <<<<a, b>>, <<c, e>>>>) :
        a \in SmallCells, b \in SmallCells, c \in SmallCells, e \in SmallCells,
        d \in MatrixDens}

Matrices3 ==
    {Matrix_new(d, <<<<a, b, 0>>, <<c, e, 0>>, <<1, 0, f>>>>) :
        a \in SmallCells, b \in SmallCells, c \in SmallCells, e \in SmallCells,
        f \in {1, 3}, d \in MatrixDens}

Matrices4 ==
    { identity_matrix,
      translation(5 * Scale, -3 * Scale, 2 * Scale),
      scaling(Scale \div 2, Scale \div 2, Scale \div 2),
      scaling(1, 1, 1),
      Matrix_new(1, <<<<6, 4, 4, 4>>, <<5, 5, 7, 6>>, <<4, -9, 3, -7>>, <<9, 1, 7, -6>>>>),
      Matrix_new(1, <<<<-4, 2, -2, -3>>, <<9, 6, 2, 6>>, <<0, -5, 1, -5>>, <<0, 0, 0, 0>>>>),
      Matrix_new(1, <<<<8, -5, 9, 2>>, <<7, 5, 6, 1>>, <<-6, 0, 9, 6>>, <<-3, 0, -9, -4>>>>) }

MatrixInputs == Matrices2 \cup Matrices3 \cup Matrices4

\* m.inverse()
MatrixInverse ==
    \E m \in MatrixInputs :
        /\ call = NoCall
        /\ call' = [fn |-> "inverse", m |-> m, det |-> determinant(m),
                    result |-> inverse(m)]
        /\ UNCHANGED <<xs, last, world, sphere_count, built, tasks, frame>>

NextMatrix == MatrixInverse \/ Return

SpecMatrix == InitCalls /\ [][NextMatrix]_vars

\* C10: Matrix::inverse returns None for every matrix whose determinant is
\* exactly zero or within epsilon of zero, and returns an inverse only for
\* determinants farther than epsilon from zero.
C10_InverseFailsWithinEpsilon ==
    call.fn = "inverse" =>
        /\ WithinEpsilon(call.det) => call.result = Ok(None)
        /\ (~call.result.panic /\ call.result.v.some) => ~WithinEpsilon(call.det)

-----------------------------------------------------------------------------
(* Shading: Material::lighting on surfaces facing and not facing the light *)

\* sqrt(2) / 2
HalfSqrt2 == Sqrt(2 * Scale) \div 2

LightingMaterials ==
    { Material_default,
      Material_new(Color_new((8 * Scale) \div 10, Scale, (6 * Scale) \div 10),
                   DEFAULT_AMBIENT, (7 * Scale) \div 10, (2 * Scale) \div 10,
                   DEFAULT_SHININESS),
      Material_new(Color_new(Scale, Scale \div 2, 0), Scale, DEFAULT_DIFFUSE,
                   DEFAULT_SPECULAR, 2) }

LightingLights ==
    { PointLight_new(point(0, 0, -10 * Scale), WHITE),
      PointLight_new(point(0, 10 * Scale, -10 * Scale), WHITE),
      PointLight_new(point(0, 0, 10 * Scale), WHITE),
      PointLight_new(point(0, 10 * Scale, 0), Color_new(Scale \div 2, Scale \div 2, Scale)) }

LightingPoints == {ORIGO, point(0, 0, -Scale)}

LightingEyes ==
    { vector(0, 0, -Scale), vector(0, HalfSqrt2, -HalfSqrt2),
      vector(0, -HalfSqrt2, -HalfSqrt2), vector(0, 0, Scale) }

LightingNormals == {vector(0, 0, -Scale), vector(0, 0, Scale), vector(0, Scale, 0)}

\* material.lighting(&light, point, eyev, normalv, in_shadow)
Lighting ==
    \E m \in LightingMaterials, light \in LightingLights, pt \in LightingPoints,
       eyev \in LightingEyes, normalv \in LightingNormals, in_shadow \in BOOLEAN :
        /\ call = NoCall
        /\ call' = [fn |-> "lighting", m |-> m, light |-> light, point |-> pt,
                    eyev |-> eyev, normalv |-> normalv, in_shadow |-> in_shadow,
                    terms |-> lighting_terms(m, light, pt, eyev, normalv),
                    result |-> lighting(m, light, pt, eyev, normalv, in_shadow)]
        /\ UNCHANGED <<xs, last, world, sphere_count, built, tasks, frame>>

NextLighting == Lighting \/ Return

SpecLighting == InitCalls /\ [][NextLighting]_vars

\* The ambient term of a lighting call: effective color times ambient weight.
AmbientOf(c) == Color_scale(Color_mul(c.m.color, c.light.intensity), c.m.ambient)

\* The dot product of the light vector and the normal of a lighting call.
LightDotNormalOf(c) == dot(normalize(Tuple_sub(c.light.position, c.point)), c.normalv)

\* The dot product of the reflection vector and the eye vector.
ReflectDotEyeOf(c) ==
    dot(reflect(Tuple_neg(normalize(Tuple_sub(c.light.position, c.point))), c.normalv),
        c.eyev)

\* C7: lighting with in_shadow = true returns exactly the ambient term
\* (effective color times the ambient weight) for every light, point, eye
\* and normal; with in_shadow = false it returns ambient + diffuse + specular.
C7_ShadowGivesAmbientOnly ==
    call.fn = "lighting" =>
        IF call.in_shadow
        THEN call.result = AmbientOf(call)
        ELSE call.result =
                Color_add(AmbientOf(call), Color_add(call.terms.diffuse, call.terms.specular))

\* A surface that faces the light and the eye, in shadow: diffuse and
\* specular are not black, and the result is the ambient term alone.
C7_Witness ==
    /\ call.fn = "lighting"
    /\ call.in_shadow
    /\ call.terms.diffuse # BLACK
    /\ call.terms.specular # BLACK
    /\ call.result = AmbientOf(call)
    /\ call.result # BLACK

\* C8: when the dot product of the light vector and the normal is negative,
\* diffuse and specular are black and the result is the ambient term only;
\* when it is non-negative but the reflection vector's dot product with the
\* eye vector is <= 0, the specular term alone is black.
C8_FacingAwayIsAmbientOnly ==
    call.fn = "lighting" =>
        /\ LightDotNormalOf(call) < 0 =>
              /\ call.terms.diffuse = BLACK
              /\ call.terms.specular = BLACK
              /\ call.result = AmbientOf(call)
        /\ (LightDotNormalOf(call) >= 0 /\ ReflectDotEyeOf(call) <= 0) =>
              /\ call.terms.specular = BLACK
              /\ call.terms.diffuse =
                    Color_scale(Color_scale(Color_mul(call.m.color, call.light.intensity),
                                            call.m.diffuse),
                                LightDotNormalOf(call))
              /\ ~call.in_shadow =>
                    call.result = Color_add(AmbientOf(call), call.terms.diffuse)

\* The light is behind the surface and the surface is not in shadow: the
\* result is still the ambient term.
C8_Witness ==
    /\ call.fn = "lighting"
    /\ ~call.in_shadow
    /\ LightDotNormalOf(call) < 0
    /\ ReflectDotEyeOf(call) > 0
    /\ call.result = AmbientOf(call)
    /\ call.result # BLACK

-----------------------------------------------------------------------------
(* The world runs: one world is built, then rays and points are put to it. *)

\* World::default_objects()
default_objects ==
    LET m == Material_new(Color_new((8 * Scale) \div 10, Scale, (6 * Scale) \div 10),
                          DEFAULT_AMBIENT, (7 * Scale) \div 10, (2 * Scale) \div 10,
                          DEFAULT_SHININESS)
        s1 == Sphere_new(1, Some(m), None).v
        tr == scaling(Scale \div 2, Scale \div 2, Scale \div 2)
        s2 == Sphere_new(2, None, Some(tr)).v
    IN  <<s1, s2>>

\* World::default_world()
default_world ==
    World_new(PointLight_new(point(-10 * Scale, 10 * Scale, -10 * Scale), WHITE),
              default_objects)

\* The worlds of the runs: the default world, the default world with its
\* objects in the other order, two spheres behind one another along z, a
\* sphere resting on a floor plane, a sphere whose surface passes through the
\* light (at a place that no ray of WorldRays meets), a lit world without
\* objects, the empty world, and a world of one sphere and no light
\* (World { light: None, objects }: both fields are pub).
Worlds ==
    { default_world,
      World_new(PointLight_new(point(-10 * Scale, 10 * Scale, -10 * Scale), WHITE),
                <<default_objects[2], default_objects[1]>>),
      World_new(PointLight_new(point(0, 0, -10 * Scale), WHITE),
                <<Sphere_new(1, None, None).v,
                  Sphere_new(2, None, Some(translation(0, 0, 10 * Scale))).v>>),
      World_new(PointLight_new(point(0, 10 * Scale, -10 * Scale), WHITE),
                <<Sphere_new(1, None, Some(translation(0, Scale, 0))).v,
                  Plane_new(None, None).v>>),
      World_new(PointLight_new(point(Scale, 0, 0), WHITE),
                <<Sphere_new(1, None, None).v>>),
      World_new(PointLight_new(point(0, 0, -10 * Scale), WHITE), <<>>),
      World_empty,
      [light |-> None, objects |-> <<Sphere_new(1, None, None).v>>] }

WorldRayOrigins ==
    { point(0, 0, -5 * Scale), point(0, 0, 0), point(0, 0, (3 * Scale) \div 4),
      point(0, 0, 5 * Scale), point(0, 2 * Scale, -5 * Scale),
      point(0, Scale, -5 * Scale), point(0, 3 * Scale, 0) }

WorldRayDirections ==
    { vector(0, 0, Scale), vector(0, 0, -Scale), vector(0, Scale, 0),
      vector(0, -Scale, 0) }

WorldRays ==
    { Ray_new(origin, direction).v : origin \in WorldRayOrigins,
                                     direction \in WorldRayDirections }

WorldPoints ==
    { point(0, 10 * Scale, 0), point(10 * Scale, -10 * Scale, 10 * Scale),
      point(-20 * Scale, 20 * Scale, -20 * Scale),
      point(-2 * Scale, 2 * Scale, -2 * Scale),
      point(0, 0, -5 * Scale), point(0, 0, 5 * Scale), point(0, 0, -20 * Scale),
      point(2 * Scale, 0, 2 * Scale), point(5 * Scale, 0, 0) }

InitWorld ==
    /\ xs = EmptyXs
    /\ last = [op |-> "init", items |-> <<>>, a |-> EmptyXs, b |-> EmptyXs]
    /\ world \in Worlds
    /\ call = NoCall
    /\ NothingBuilt

\* world.color_at(ray)
ColorAt ==
    \E ray \in WorldRays :
        /\ call = NoCall
        /\ call' = [fn |-> "color_at", ray |-> ray, result |-> color_at(world, ray)]
        /\ UNCHANGED <<xs, last, world, sphere_count, built, tasks, frame>>

\* world.is_shadowed(point)
IsShadowed ==
    \E pt \in WorldPoints :
        /\ call = NoCall
        /\ call' = [fn |-> "is_shadowed", point |-> pt,
                    result |-> is_shadowed(world, pt)]
        /\ UNCHANGED <<xs, last, world, sphere_count, built, tasks, frame>>

\* world.intersect(ray)
WorldIntersect ==
    \E ray \in WorldRays :
        /\ call = NoCall
        /\ call' = [fn |-> "intersect", ray |-> ray,
                    result |-> World_intersect(world, ray)]
        /\ UNCHANGED <<xs, last, world, sphere_count, built, tasks, frame>>

\* i.prepare_computations(ray) for an intersection i of the ray with an object
\* of the world
WorldPrepare ==
    \E ray \in WorldRays, k \in 1..2, n \in 1..2 :
        /\ call = NoCall
        /\ k <= Len(world.objects)
        /\ LET r == Shape_intersect(world.objects[k], ray)
           IN  /\ ~r.panic
               /\ n <= len(r.v)
               /\ call' = [fn |-> "prepare_computations", ray |-> ray,
                           result |-> prepare_computations(r.v.inner[n], ray)]
        /\ UNCHANGED <<xs, last, world, sphere_count, built, tasks, frame>>

\* world.shade_hit(comps) for the precomputed data just returned
ShadeHit ==
    /\ call.fn = "prepare_computations"
    /\ call' = [fn |-> "shade_hit", comps |-> call.result,
                result |-> shade_hit(world, call.result)]
    /\ UNCHANGED <<xs, last, world, sphere_count, built, tasks, frame>>

NextWorld == ColorAt \/ IsShadowed \/ WorldIntersect \/ Return

SpecWorld == InitWorld /\ [][NextWorld]_vars

\* Shading on its own: precomputed data of any intersection, then shade_hit.
NextShade == WorldPrepare \/ ShadeHit \/ Return

SpecShade == InitWorld /\ [][NextShade]_vars

\* The intersections of the ray with object k of the world, on its own.
ObjectIntersections(w, ray, k) == Shape_intersect(w.objects[k], ray).v

\* Every intersection of the ray with any object of the world.
AllIntersections(w, ray) ==
    UNION { { ObjectIntersections(w, ray, k).inner[n] :
                n \in 1..len(ObjectIntersections(w, ray, k)) } :
            k \in 1..Len(w.objects) }

\* The intersections in front of the ray's origin that no other such
\* intersection precedes.
NearestNonNegative(w, ray) ==
    { i \in AllIntersections(w, ray) :
        /\ i.t >= 0
        /\ \A j \in AllIntersections(w, ray) : j.t >= 0 => i.t <= j.t }

\* How many times item occurs in the list.
Count(inner, item) == Cardinality({ n \in 1..Len(inner) : inner[n] = item })

RECURSIVE SumOver(_, _, _)
\* f[1] + ... + f[k]
SumOver(f, k, acc) == IF k = 0 THEN acc ELSE SumOver(f, k - 1, acc + f[k])

\* C4: World::color_at returns BLACK whenever the ray has no hit in the world
\* (no intersection at all, or intersections with negative t only), and
\* otherwise returns shade_hit(prepare_computations(hit)), the hit being the
\* nearest non-negative intersection over all objects.
C4_ColorAtShadesNearestHit ==
    call.fn = "color_at" =>
        IF NearestNonNegative(world, call.ray) = {}
        THEN call.result = Ok(BLACK)
        ELSE \E i \in NearestNonNegative(world, call.ray) :
                call.result = shade_hit(world, prepare_computations(i, call.ray))

\* A ray from inside a sphere: intersections behind it, a hit in front of it,
\* and a color that is not black.
C4_Witness ==
    /\ call.fn = "color_at"
    /\ \E j \in AllIntersections(world, call.ray) : j.t < 0
    /\ NearestNonNegative(world, call.ray) # {}
    /\ ~call.result.panic
    /\ call.result.v # BLACK

\* The distance from the point to the light of the world.
C5_Distance(w, pt) == magnitude(Tuple_sub(w.light.v.position, pt))

\* The ray from the point toward the light of the world.
C5_ShadowRay(w, pt) == Ray_new(pt, normalize(Tuple_sub(w.light.v.position, pt))).v

\* C5: World::is_shadowed(point) is true if and only if the ray cast from the
\* point toward the light has a hit whose t is strictly less than the distance
\* from the point to the light.
C5_ShadowedIffHitBeforeLight ==
    (call.fn = "is_shadowed" /\ world.light.some) =>
        call.result =
            Ok(\E i \in NearestNonNegative(world, C5_ShadowRay(world, call.point)) :
                    i.t < C5_Distance(world, call.point))

\* A point with an object between it and the light.
C5_Witness ==
    /\ call.fn = "is_shadowed"
    /\ world.light.some
    /\ call.result = Ok(TRUE)
    /\ \E i \in NearestNonNegative(world, C5_ShadowRay(world, call.point)) :
            i.t < C5_Distance(world, call.point)

\* C6: World::intersect returns the union of the intersections of the ray with
\* every object of the world, sorted by ascending t whatever the order of the
\* objects, and its length is the sum of the per-object intersection counts.
C6_IntersectIsSortedUnion ==
    call.fn = "intersect" =>
        /\ ~call.result.panic
        /\ IsSortedByT(call.result.v.inner)
        /\ len(call.result.v) =
              SumOver([k \in 1..Len(world.objects) |->
                          len(ObjectIntersections(world, call.ray, k))],
                      Len(world.objects), 0)
        /\ \A n \in 1..len(call.result.v) :
              call.result.v.inner[n] \in AllIntersections(world, call.ray)
        /\ \A i \in AllIntersections(world, call.ray) :
              Count(call.result.v.inner, i) =
                 SumOver([k \in 1..Len(world.objects) |->
                             Count(ObjectIntersections(world, call.ray, k).inner, i)],
                         Len(world.objects), 0)
        /\ hit(call.result.v) = first_hit(call.result.v.inner)

\* A ray through two objects whose intersections interleave: the later object
\* of the world is met before the earlier one is left.
C6_Witness ==
    /\ call.fn = "intersect"
    /\ Len(world.objects) = 2
    /\ len(ObjectIntersections(world, call.ray, 1)) > 0
    /\ len(ObjectIntersections(world, call.ray, 2)) > 0
    /\ ~IsSortedByT(ObjectIntersections(world, call.ray, 1).inner
                    \o ObjectIntersections(world, call.ray, 2).inner)
    /\ len(call.result.v) = 4

-----------------------------------------------------------------------------
(* Construction and use: shapes, patterns and cameras are built with a    *)
(* transform and then queried.                                            *)

MaxBuilt == 2

MaxSpheres == 3

\* Matrix::scaling(0., 1., 1.): its determinant is zero.
SingularTransform == scaling(0, Scale, Scale)

BuildTransforms ==
    {None, Some(translation(0, Scale, 0)), Some(scaling(2 * Scale, 2 * Scale, 2 * Scale)),
     Some(SingularTransform)}

BuildRays ==
    {Ray_new(point(0, 0, -5 * Scale), vector(0, 0, Scale)).v,
     Ray_new(point(0, 3 * Scale, 0), vector(0, -Scale, 0)).v}

BuildPoints == {point(Scale, 0, 0), point(0, 3 * Scale, 0), point(-((3 * Scale) \div 2), 0, Scale)}

IsShape(o) == o.kind \in {"sphere", "plane"}

IsPattern(o) == o.kind = "stripe"

\* PartialEq of two boxed shapes: by index for two spheres, field by field
\* for two planes, false for shapes of different kinds.
Shape_eq(a, b) ==
    IF a.kind # b.kind THEN FALSE
    ELSE IF a.kind = "sphere" THEN a.index = b.index
    ELSE /\ a.inverse_transform = b.inverse_transform
         /\ a.transform = b.transform
         /\ a.material = b.material

\* A constructor returned or panicked: the object exists only if it returned.
Constructed(fn, transform, r, n) ==
    /\ call' = [fn |-> fn, transform |-> transform, result |-> r, inversions |-> n]
    /\ built' = IF r.panic THEN built ELSE Append(built, r.v)

\* Sphere::new(None, transform); the counter is fetched before the transform
\* is inverted.
NewSphere ==
    \E transform \in BuildTransforms :
        /\ call = NoCall
        /\ Len(built) < MaxBuilt
        /\ sphere_count < MaxSpheres
        /\ sphere_count' = sphere_count + 1
        /\ Constructed("Sphere::new", transform, Sphere_new(sphere_count, None, transform),
                       inversions_of_construction(transform))
        /\ UNCHANGED <<xs, last, world, tasks, frame>>

\* Plane::new(None, transform)
NewPlane ==
    \E transform \in BuildTransforms :
        /\ call = NoCall
        /\ Len(built) < MaxBuilt
        /\ Constructed("Plane::new", transform, Plane_new(None, transform),
                       inversions_of_construction(transform))
        /\ UNCHANGED <<xs, last, world, sphere_count, tasks, frame>>

\* StripePattern::new(WHITE, BLACK, transform)
NewStripePattern ==
    \E transform \in BuildTransforms :
        /\ call = NoCall
        /\ Len(built) < MaxBuilt
        /\ Constructed("StripePattern::new", transform,
                       StripePattern_new(WHITE, BLACK, transform),
                       inversions_of_construction(transform))
        /\ UNCHANGED <<xs, last, world, sphere_count, tasks, frame>>

\* Camera::new(2, 2, FRAC_PI_2, transform)
NewCamera ==
    \E transform \in BuildTransforms :
        /\ call = NoCall
        /\ Len(built) < MaxBuilt
        /\ Constructed("Camera::new", transform, Camera_new(2, 2, FRAC_PI_2, transform),
                       inversions_of_Camera_new(transform))
        /\ UNCHANGED <<xs, last, world, sphere_count, tasks, frame>>

\* shape.intersect(ray) on a constructed shape
Intersect ==
    \E k \in 1..Len(built), ray \in BuildRays :
        /\ call = NoCall
        /\ IsShape(built[k])
        /\ call' = [fn |-> "intersect", target |-> built[k], ray |-> ray,
                    result |-> Shape_intersect(built[k], ray),
                    inversions |-> inversions_of_shape_query]
        /\ UNCHANGED <<xs, last, world, sphere_count, built, tasks, frame>>

\* shape.normal_at(point) on a constructed shape
NormalAt ==
    \E k \in 1..Len(built), p \in BuildPoints :
        /\ call = NoCall
        /\ IsShape(built[k])
        /\ call' = [fn |-> "normal_at", target |-> built[k], point |-> p,
                    result |-> Ok(normal_at(built[k], p)),
                    inversions |-> inversions_of_shape_query]
        /\ UNCHANGED <<xs, last, world, sphere_count, built, tasks, frame>>

\* pattern.pattern_at_shape(shape, point) on a constructed pattern and shape
PatternAtShape ==
    \E k \in 1..Len(built), j \in 1..Len(built), p \in BuildPoints :
        /\ call = NoCall
        /\ IsPattern(built[k])
        /\ IsShape(built[j])
        /\ call' = [fn |-> "pattern_at_shape", target |-> built[k], object |-> built[j],
                    point |-> p,
                    result |-> Ok(pattern_at_shape(built[k], built[j], p)),
                    inversions |-> inversions_of_shape_query]
        /\ UNCHANGED <<xs, last, world, sphere_count, built, tasks, frame>>

\* camera.ray_for_pixel(px, py) on a constructed camera
RayForPixel ==
    \E k \in 1..Len(built), px \in 0..1, py \in 0..1 :
        /\ call = NoCall
        /\ built[k].kind = "camera"
        /\ call' = [fn |-> "ray_for_pixel", target |-> built[k], px |-> px, py |-> py,
                    result |-> ray_for_pixel(built[k], px, py),
                    inversions |-> inversions_of_ray_for_pixel(built[k])]
        /\ UNCHANGED <<xs, last, world, sphere_count, built, tasks, frame>>

\* a == b for two separately constructed shapes
ShapeEq ==
    \E i \in 1..Len(built), j \in 1..Len(built) :
        /\ call = NoCall
        /\ i # j
        /\ IsShape(built[i])
        /\ IsShape(built[j])
        /\ call' = [fn |-> "eq", a |-> built[i], b |-> built[j],
                    result |-> Shape_eq(built[i], built[j])]
        /\ UNCHANGED <<xs, last, world, sphere_count, built, tasks, frame>>

NextBuild ==
    \/ NewSphere
    \/ NewPlane
    \/ NewStripePattern
    \/ NewCamera
    \/ Intersect
    \/ NormalAt
    \/ PatternAtShape
    \/ RayForPixel
    \/ ShapeEq
    \/ Return

SpecBuild == InitCalls /\ [][NextBuild]_vars

Constructors ==
    {"Sphere::new", "Plane::new", "StripePattern::new", "Camera::new"}

Queries == {"intersect", "normal_at", "pattern_at_shape", "ray_for_pixel"}

\* The matrix has no inverse: Matrix::inverse returns None.
NonInvertible(m) == LET inv == inverse(m) IN ~inv.panic /\ ~inv.v.some

\* C11: a shape, pattern or camera constructed with a non-invertible
\* transform fails at construction, and no later intersect, normal_at,
\* pattern_at_shape or ray_for_pixel on a constructed object fails.
C11_NonInvertibleFailsAtConstruction ==
    /\ (/\ call.fn \in Constructors
        /\ call.transform.some
        /\ NonInvertible(call.transform.v)) => call.result.panic
    /\ call.fn \in Queries => ~call.result.panic

\* C12: every constructor given a transform inverts it exactly once (at most
\* once when the transform is absent), and intersect, normal_at,
\* pattern_at_shape and ray_for_pixel perform no matrix inversion.
C12_InverseComputedOnceAtConstruction ==
    /\ call.fn \in Constructors =>
           IF call.transform.some THEN call.inversions = 1 ELSE call.inversions <= 1
    /\ call.fn \in Queries => call.inversions = 0

\* C13: two separately constructed shapes of the same kind with identical
\* transform and material compare equal, spheres as well as planes.
C13_ShapeEqualityIsStructural ==
    (/\ call.fn = "eq"
     /\ call.a.kind = call.b.kind
     /\ call.a.transform = call.b.transform
     /\ call.a.material = call.b.material) => call.result

-----------------------------------------------------------------------------
(* Rendering: Camera::render fills a canvas pixel by pixel.               *)

MaxHsize == 3

MaxVsize == 2

\* The cameras that Camera::new returns for the sizes and transforms tried.
RenderCameras ==
    {Camera_new(hsize, vsize, FRAC_PI_2, transform).v :
        hsize \in 1..MaxHsize, vsize \in 1..MaxVsize,
        transform \in {None, Some(translation(0, 0, -5 * Scale)), Some(SingularTransform)}}

RenderWorlds == {default_world, World_new(PointLight_new(point(0, 10 * Scale, 0), WHITE), <<>>)}

InitScene ==
    /\ xs = EmptyXs
    /\ last = [op |-> "init", items |-> <<>>, a |-> EmptyXs, b |-> EmptyXs]
    /\ world \in RenderWorlds
    /\ call = NoCall
    /\ NothingBuilt

\* camera.render(world) is entered: an image of hsize x vsize pixels, the
\* loops at their first pixel.
RenderStart ==
    \E camera \in RenderCameras :
        /\ frame = None
        /\ frame' = Some([camera |-> camera, x |-> 0, y |-> 0,
                          image |-> Canvas_new(camera.hsize, camera.vsize),
                          writes |-> <<>>, ray |-> None, color |-> None,
                          status |-> "running"])
        /\ UNCHANGED <<xs, last, world, call, sphere_count, built, tasks>>

\* The loop body, first statement: the ray for pixel (x, y).  A panic of
\* ray_for_pixel ends the render.
RenderRay ==
    /\ frame # None
    /\ frame.v.status = "running"
    /\ frame.v.ray = None
    /\ LET f == frame.v
           ray == ray_for_pixel(f.camera, f.x, f.y)
       IN  frame' = IF ray.panic THEN Some([f EXCEPT !.status = "panicked"])
                    ELSE Some([f EXCEPT !.ray = Some(ray.v)])
    /\ UNCHANGED <<xs, last, world, call, sphere_count, built, tasks>>

\* The loop body, second statement: the color of the ray.
RenderColor ==
    /\ frame # None
    /\ frame.v.status = "running"
    /\ frame.v.ray # None
    /\ frame.v.color = None
    /\ frame' = Some([frame.v EXCEPT !.color = Some(color_at(world, frame.v.ray.v))])
    /\ UNCHANGED <<xs, last, world, call, sphere_count, built, tasks>>

\* The loop body, third statement: the write into the image; then the next
\* pixel of the row, or the next row.  A panic of color_at ends the render.
RenderPixel ==
    /\ frame # None
    /\ frame.v.status = "running"
    /\ frame.v.color # None
    /\ LET f == frame.v
           color == f.color.v
           last_in_row == f.x + 1 = f.camera.hsize
           last_row == f.y + 1 = f.camera.vsize
       IN  frame' =
               IF color.panic THEN Some([f EXCEPT !.status = "panicked"])
               ELSE Some([f EXCEPT
                            !.image = write_pixel(f.image, f.x, f.y, color.v),
                            !.writes = Append(f.writes, <<f.x, f.y>>),
                            !.ray = None,
                            !.color = None,
                            !.x = IF last_in_row THEN 0 ELSE f.x + 1,
                            !.y = IF last_in_row THEN f.y + 1 ELSE f.y,
                            !.status = IF last_in_row /\ last_row THEN "done"
                                       ELSE "running"])
    /\ UNCHANGED <<xs, last, world, call, sphere_count, built, tasks>>

\* render returns the image, or its panic reaches the caller.
RenderReturn ==
    /\ frame # None
    /\ frame.v.status \in {"done", "panicked"}
    /\ frame' = None
    /\ UNCHANGED <<xs, last, world, call, sphere_count, built, tasks>>

NextRender == RenderStart \/ RenderRay \/ RenderColor \/ RenderPixel \/ RenderReturn

SpecRender == InitScene /\ [][NextRender]_vars

\* The pixels of an hsize x vsize image in row-major order, top row first.
RowMajor(hsize, vsize) ==
    [i \in 1..(hsize * vsize) |-> <<(i - 1) % hsize, (i - 1) \div hsize>>]

\* C14: Camera::render(world) produces exactly one color for every pixel, in
\* row-major order from the top row, the color at (x, y) being
\* world.color_at(ray_for_pixel(x, y)); no pixel is skipped or written twice.
C14_RenderWritesEveryPixelOnce ==
    frame # None =>
        LET f == frame.v
            order == RowMajor(f.camera.hsize, f.camera.vsize)
        IN  /\ f.status # "panicked"
            /\ Len(f.writes) <= Len(order)
            /\ f.writes = SubSeq(order, 1, Len(f.writes))
            /\ f.status = "done" => f.writes = order
            /\ \A i \in 1..Len(f.writes) :
                   LET x == f.writes[i][1]
                       y == f.writes[i][2]
                   IN  Ok(pixel_at(f.image, x, y))
                           = color_at(world, ray_for_pixel(f.camera, x, y).v)

-----------------------------------------------------------------------------
(* Concurrent evaluation: several threads evaluate color_at on one World, *)
(* while another thread may construct spheres.                            *)

MaxTasks == 2

\* A clone that draws a fresh index from the counter, as Sphere::new does.
Shape_clone_fresh_id(self, count) ==
    [object |-> [self EXCEPT !.index = count], count |-> count + 1]

\* derive(Clone) of a shape: a copy of every field, index included; the
\* counter SPHERE_COUNT, here count, is not touched.
Shape_clone(self, count) == [object |-> self, count |-> count]

\* The counter after the objects have been cloned one after the other.
RECURSIVE CountAfterClones(_, _)
CountAfterClones(objects, count) ==
    IF objects = <<>> THEN count
    ELSE CountAfterClones(Tail(objects), Shape_clone(Head(objects), count).count)

\* A thread calls world.color_at(ray).
TaskStart ==
    \E ray \in {Ray_new(point(0, 0, -5 * Scale), vector(0, 0, Scale)).v,
                Ray_new(point(0, 0, -5 * Scale), vector(0, Scale, 0)).v,
                Ray_new(point(0, 0, (3 * Scale) \div 4), vector(0, 0, Scale)).v} :
        /\ Len(tasks) < MaxTasks
        /\ tasks' = Append(tasks, [ray |-> ray, pc |-> "intersect"])
        /\ UNCHANGED <<xs, last, world, call, sphere_count, built, frame>>

\* let xs = self.intersect(ray): every intersection holds a clone of its
\* object (self.clone() in inner_intersect).
TaskIntersect ==
    \E i \in 1..Len(tasks) :
        /\ tasks[i].pc = "intersect"
        /\ LET r == World_intersect(world, tasks[i].ray)
               cloned == IF r.panic THEN <<>>
                         ELSE [k \in 1..Len(r.v.inner) |-> r.v.inner[k].object]
           IN  /\ tasks' = [tasks EXCEPT ![i] = [ray |-> tasks[i].ray, pc |-> "shade",
                                                 xs |-> r]]
               /\ sphere_count' = CountAfterClones(cloned, sphere_count)
        /\ UNCHANGED <<xs, last, world, call, built, frame>>

\* match xs.hit(): BLACK, or prepare_computations (which clones the object)
\* and shade_hit.
TaskShade ==
    \E i \in 1..Len(tasks) :
        /\ tasks[i].pc = "shade"
        /\ LET r == tasks[i].xs
               h == IF r.panic THEN None ELSE hit(r.v)
               color == IF r.panic THEN r
                        ELSE IF h = None THEN Ok(BLACK)
                        ELSE shade_hit(world, prepare_computations(h.v, tasks[i].ray))
               cloned == IF h = None THEN <<>> ELSE <<h.v.object>>
           IN  /\ tasks' = [tasks EXCEPT ![i] = [ray |-> tasks[i].ray, pc |-> "done",
                                                 result |-> color]]
               /\ sphere_count' = CountAfterClones(cloned, sphere_count)
        /\ UNCHANGED <<xs, last, world, call, built, frame>>

\* Another thread runs Sphere::default(): SPHERE_COUNT.fetch_add(1).
SphereDefault ==
    /\ sphere_count < MaxSpheres
    /\ sphere_count' = sphere_count + 1
    /\ UNCHANGED <<xs, last, world, call, built, tasks, frame>>

NextTasks == TaskStart \/ TaskIntersect \/ TaskShade \/ SphereDefault

SpecTasks == InitScene /\ [][NextTasks]_vars

\* C15: every step of a color_at evaluation leaves the World and the sphere
\* counter unchanged, and every finished evaluation, whatever the other
\* threads did in between, has the color that color_at gives for its ray
\* evaluated alone.
C15_ColorAtReadsOnly ==
    [][tasks' # tasks =>
          /\ world' = world
          /\ sphere_count' = sphere_count
          /\ \A i \in 1..Len(tasks') :
                 tasks'[i].pc = "done" =>
                     tasks'[i].result = color_at(world', tasks'[i].ray)]_vars

\* Two evaluations overlap: one has finished with a shaded color, the other
\* is between its intersect and its shading, and spheres were constructed
\* meanwhile.
C15_Witness ==
    /\ Len(tasks) = 2
    /\ tasks[1].pc = "done"
    /\ ~tasks[1].result.panic
    /\ tasks[1].result.v # BLACK
    /\ tasks[2].pc = "shade"
    /\ sphere_count > 0

-----------------------------------------------------------------------------
(* Single calls on shapes, patterns and intersections *)

\* The rays tried: origins on the y and z axes, along and against the axes,
\* with directions of length 1 and 2.
OpRays ==
    {Ray_new(point(0, y, z), d).v :
        y \in {-Scale, 0, Scale, 2 * Scale}, z \in {-5 * Scale, 0, 5 * Scale},
        d \in {vector(0, 0, Scale), vector(0, 0, -Scale), vector(0, Scale, 0),
               vector(0, -2 * Scale, 0), vector(Scale, 0, 0), vector(0, -Scale, Scale)}}

\* The shapes tried, as their constructors return them.
OpShapes ==
    {Sphere_new(0, None, None).v,
     Sphere_new(1, None, Some(translation(0, Scale, 0))).v,
     Plane_new(None, None).v}

\* pattern.inner_pattern_at(point) for a stripe pattern of WHITE and BLACK, at
\* every quarter between -3 and 3
StripeAt ==
    \E k \in -12..12, y \in {0, Scale}, z \in {0, 2 * Scale} :
        /\ call = NoCall
        /\ call' = [fn |-> "inner_pattern_at",
                    self |-> StripePattern_new(WHITE, BLACK, None).v,
                    point |-> point(k * (Scale \div 4), y, z),
                    result |-> Stripe_inner_pattern_at(
                                   StripePattern_new(WHITE, BLACK, None).v,
                                   point(k * (Scale \div 4), y, z))]
        /\ UNCHANGED <<xs, last, world, sphere_count, built, tasks, frame>>

\* sphere.inner_intersect(object_ray)
SphereInnerIntersect ==
    \E ray \in OpRays :
        /\ call = NoCall
        /\ call' = [fn |-> "Sphere::inner_intersect", ray |-> ray,
                    result |-> Sphere_inner_intersect(Sphere_new(0, None, None).v, ray)]
        /\ UNCHANGED <<xs, last, world, sphere_count, built, tasks, frame>>

\* plane.inner_intersect(object_ray)
PlaneInnerIntersect ==
    \E ray \in OpRays :
        /\ call = NoCall
        /\ call' = [fn |-> "Plane::inner_intersect", ray |-> ray,
                    result |-> Plane_inner_intersect(Plane_new(None, None).v, ray)]
        /\ UNCHANGED <<xs, last, world, sphere_count, built, tasks, frame>>

\* Intersection::new(t, object).prepare_computations(ray), the point not
\* being the centre of a sphere (whose normal has no direction)
PrepareComputations ==
    \E ray \in OpRays, object \in OpShapes, t \in {Scale, 4 * Scale, 6 * Scale} :
        /\ call = NoCall
        /\ magnitude(inner_normal_at(object,
               Matrix_mul_tuple(inverse_transformation(object), position(ray, t)))) # 0
        /\ call' = [fn |-> "prepare_computations", i |-> Intersection(t, object),
                    ray |-> ray,
                    result |-> prepare_computations(Intersection(t, object), ray)]
        /\ UNCHANGED <<xs, last, world, sphere_count, built, tasks, frame>>

\* Matrix * Matrix: cell (row, col) is the sum of self[row][i] * rhs[i][col]
Matrix_mul(a, b) ==
    Mat(a.size, a.d * b.d,
        [r \in 0..3 |-> [c \in 0..3 |->
            IF r < a.size /\ c < a.size
            THEN LET term(i) == IF i < a.size THEN a.inner[r][i] * b.inner[i][c] ELSE 0
                 IN  term(0) + term(1) + term(2) + term(3)
            ELSE 0]])

\* PartialEq for Matrix: equal sizes and every cell within 0.00001
Matrix_eq(a, b) ==
    /\ a.size = b.size
    /\ \A r \in 0..3, c \in 0..3 :
           Abs(a.inner[r][c] * b.d - b.inner[r][c] * a.d) * Scale < EPSILON * a.d * b.d

\* PartialEq for Tuple: x, y and z within epsilon, w equal
Tuple_eq(a, b) ==
    /\ approx_eq(a.x, b.x)
    /\ approx_eq(a.y, b.y)
    /\ approx_eq(a.z, b.z)
    /\ a.w = b.w

\* The matrices of the round trips: 2 x 2, 3 x 3 and 4 x 4, with and without
\* an inverse.
RoundTripMatrices ==
    { Matrix_new(1, <<<<1, 0>>, <<0, 1>>>>),
      Matrix_new(1, <<<<1, 2>>, <<0, 2>>>>),
      Matrix_new(1, <<<<1, 2>>, <<2, 4>>>>),
      Matrix_new(1, <<<<1, 2, 0>>, <<0, 1, 0>>, <<1, 0, 3>>>>),
      Matrix_new(100, <<<<2, 1, 0>>, <<1, 1, 0>>, <<1, 0, 1>>>>),
      Matrix_new(1, <<<<1, 1, 0>>, <<1, 1, 0>>, <<1, 0, 3>>>>),
      identity_matrix,
      translation(5 * Scale, -3 * Scale, 2 * Scale),
      scaling(2 * Scale, Scale \div 2, 4 * Scale),
      Matrix_new(1, <<<<3, -9, 7, 3>>, <<3, -8, 2, -9>>, <<-4, 4, 4, 1>>, <<-6, 5, -1, 1>>>>),
      Matrix_new(1, <<<<8, 2, 2, 2>>, <<3, -1, 7, 0>>, <<7, 0, 5, 4>>, <<6, -2, 0, 5>>>>),
      Matrix_new(1, <<<<-4, 2, -2, -3>>, <<9, 6, 2, 6>>, <<0, -5, 1, -5>>, <<0, 0, 0, 0>>>>) }

\* t.inverse().unwrap() * (t * p) for a transform t and a point p
RoundTripPoint ==
    \E t \in {m \in RoundTripMatrices : m.size = 4},
       x \in {-2 * Scale, 0, 4 * Scale}, y \in {0, 2 * Scale}, z \in {-4 * Scale, 2 * Scale} :
        /\ call = NoCall
        /\ call' = [fn |-> "round_trip_point", t |-> t, p |-> point(x, y, z),
                    result |->
                        LET inv == inverse_unwrap(t)
                        IN  IF inv.panic THEN inv
                            ELSE Ok(Matrix_mul_tuple(inv.v,
                                        Matrix_mul_tuple(t, point(x, y, z))))]
        /\ UNCHANGED <<xs, last, world, sphere_count, built, tasks, frame>>

\* (a * b) * b.inverse().unwrap() for matrices a and b of one size
RoundTripProduct ==
    \E a \in RoundTripMatrices, b \in RoundTripMatrices :
        /\ call = NoCall
        /\ a.size = b.size
        /\ call' = [fn |-> "round_trip_product", a |-> a, b |-> b,
                    result |->
                        LET inv == inverse_unwrap(b)
                        IN  IF inv.panic THEN inv
                            ELSE Ok(Matrix_mul(Matrix_mul(a, b), inv.v))]
        /\ UNCHANGED <<xs, last, world, sphere_count, built, tasks, frame>>

\* The vector Tuple::normalize returns for a vector of magnitude 0: x, y and z
\* are 0.0 / 0.0, which is NaN; nothing fails.
NaNVector == [panic |-> FALSE, nan |-> TRUE]

\* Tuple::normalize with its outcome: the division by the magnitude is not
\* guarded.
Tuple_normalize(self) ==
    IF magnitude(self) = 0 THEN NaNVector
    ELSE [panic |-> FALSE, nan |-> FALSE, v |-> normalize(self)]

\* v.normalize() for the vectors of whole components between -1 and 2, the
\* zero vector among them
Normalize ==
    \E x \in {-Scale, 0, 2 * Scale}, y \in {-Scale, 0, Scale}, z \in {0, Scale} :
        /\ call = NoCall
        /\ call' = [fn |-> "normalize", self |-> vector(x, y, z),
                    result |-> Tuple_normalize(vector(x, y, z))]
        /\ UNCHANGED <<xs, last, world, sphere_count, built, tasks, frame>>

\* shape.intersect(ray) on a sphere, a translated sphere and a plane
ShapeIntersect ==
    \E shape \in OpShapes, ray \in OpRays :
        /\ call = NoCall
        /\ call' = [fn |-> "intersect", target |-> shape, ray |-> ray,
                    result |-> Shape_intersect(shape, ray)]
        /\ UNCHANGED <<xs, last, world, sphere_count, built, tasks, frame>>

NextOps ==
    \/ StripeAt
    \/ SphereInnerIntersect
    \/ PlaneInnerIntersect
    \/ PrepareComputations
    \/ RoundTripPoint
    \/ RoundTripProduct
    \/ Normalize
    \/ ShapeIntersect
    \/ Return

SpecOps == InitCalls /\ [][NextOps]_vars

\* C16: StripePattern::inner_pattern_at returns a when floor(x) is even and b
\* when floor(x) is odd, for every x, negative values and exact negative
\* integers included (a at x = -2, b at x = -1), whatever y and z are.
C16_StripeFollowsFloorParity ==
    call.fn = "inner_pattern_at" =>
        call.result = IF (call.point.x \div Scale) % 2 = 0 THEN call.self.a
                      ELSE call.self.b

\* The discriminant of the ray against the unit sphere.
Discriminant(ray) ==
    LET sphere_to_ray == Tuple_sub(ray.origin, ORIGO)
        a == dot(ray.direction, ray.direction)
        b == 2 * dot(ray.direction, sphere_to_ray)
        c == dot(sphere_to_ray, sphere_to_ray) - Scale
    IN  Mul(b, b) - 4 * Mul(a, c)

C18_PlaneIntersectsOnceUnlessParallel ==
    call.fn = "Plane::inner_intersect" =>
        LET r == call.result
        IN  IF Abs(call.ray.direction.y) < EPSILON THEN len(r) = 0
            ELSE /\ len(r) = 1
                 /\ r.inner[1].t = Div(-call.ray.origin.y, call.ray.direction.y)

\* A ray from below the plane has been intersected, at a positive t.
C18_Witness ==
    /\ call.fn = "Plane::inner_intersect"
    /\ call.ray.origin.y < 0
    /\ len(call.result) = 1
    /\ call.result.inner[1].t > 0

C20_InverseUndoesTransform ==
    /\ (call.fn = "round_trip_point" /\ determinant(call.t).num # 0) =>
           /\ ~call.result.panic
           /\ Tuple_eq(call.result.v, call.p)
    /\ (call.fn = "round_trip_product" /\ determinant(call.b).num # 0) =>
           /\ ~call.result.panic
           /\ Matrix_eq(call.result.v, call.a)

-----------------------------------------------------------------------------
(* The canvas: pixel writes and the conversion of colors to bytes.        *)

MaxWrites == 3

\* f64 as u8: the integer part, saturating at 0 and 255
as_u8(v) ==
    IF v < 0 THEN 0
    ELSE IF v \div Scale > 255 THEN 255
    ELSE v \div Scale

\* clamp_to_byte whose upper branch casts the scaled component and wraps.
clamp_to_byte_wrapping(color_component) ==
    IF color_component < 0 THEN 0
    ELSE ((color_component * 256) \div Scale) % 256

\* Canvas::clamp_to_byte(color_component)
clamp_to_byte(color_component) ==
    IF color_component < 0 THEN 0
    ELSE IF color_component >= Scale THEN 255
    ELSE as_u8(color_component * 256)

\* Canvas::clamp_to_byte(c) for components from -1 to 3, tried while no
\* canvas exists
ClampToByte ==
    \E c \in (-Scale)..(3 * Scale) :
        /\ call = NoCall
        /\ frame = None
        /\ call' = [fn |-> "clamp_to_byte", c |-> c, result |-> clamp_to_byte(c)]
        /\ UNCHANGED <<xs, last, world, sphere_count, built, tasks, frame>>

\* Canvas::new(width, height); written remembers the last color written to
\* each pixel, none so far.
CanvasNew ==
    \E width \in 1..MaxHsize, height \in 1..MaxVsize :
        /\ frame = None
        /\ call = NoCall
        /\ frame' = Some([canvas |-> Canvas_new(width, height),
                          width |-> width, height |-> height, writes |-> 0,
                          written |-> [y \in 0..(height - 1) |->
                                          [x \in 0..(width - 1) |-> None]]])
        /\ UNCHANGED <<xs, last, world, call, sphere_count, built, tasks>>

\* canvas.write_pixel(x, y, c) within the bounds of the canvas
WritePixel ==
    \E x \in 0..(MaxHsize - 1), y \in 0..(MaxVsize - 1),
       c \in {WHITE, BLACK} :
        /\ frame # None
        /\ frame.v.writes < MaxWrites
        /\ x < frame.v.canvas.width
        /\ y < frame.v.canvas.height
        /\ frame' = Some([frame.v EXCEPT
                            !.canvas = write_pixel(frame.v.canvas, x, y, c),
                            !.writes = frame.v.writes + 1,
                            !.written[y][x] = Some(c)])
        /\ UNCHANGED <<xs, last, world, call, sphere_count, built, tasks>>

NextCanvas == ClampToByte \/ CanvasNew \/ WritePixel \/ Return

SpecCanvas == InitCalls /\ [][NextCanvas]_vars

\* C21: the byte of a color component is always in 0..255: 0 for a component
\* below 0, 255 for a component of 1.0 or more, floor(c * 256) for any other
\* component c, so 128 for 0.5.
C21_ClampToByteInRange ==
    call.fn = "clamp_to_byte" =>
        /\ call.result \in 0..255
        /\ call.c < 0 => call.result = 0
        /\ call.c >= Scale => call.result = 255
        /\ (call.c >= 0 /\ call.c < Scale) => call.result = (call.c * 256) \div Scale
        /\ 2 * call.c = Scale => call.result = 128

\* A component above 1.0 has been converted, to 255.
C21_Witness ==
    /\ call.fn = "clamp_to_byte"
    /\ call.c > Scale
    /\ call.result = 255

\* C22: a new Canvas is BLACK everywhere; after any writes within bounds
\* pixel_at(x, y) is the color last written to (x, y), BLACK if none was; the
\* other pixels, the width and the height are as before.
C22_CanvasKeepsLastWrite ==
    frame # None =>
        LET f == frame.v
        IN  /\ f.canvas.width = f.width
            /\ f.canvas.height = f.height
            /\ DOMAIN f.canvas.canvas = 0..(f.height - 1)
            /\ \A y \in 0..(f.height - 1) :
                   /\ DOMAIN f.canvas.canvas[y] = 0..(f.width - 1)
                   /\ \A x \in 0..(f.width - 1) :
                          pixel_at(f.canvas, x, y)
                              = IF f.written[y][x] = None THEN BLACK
                                ELSE f.written[y][x].v

\* A pixel has been written twice with different colors next to a pixel never
\* written.
C22_Witness ==
    /\ frame # None
    /\ frame.v.writes = MaxWrites
    /\ \E y \in 0..(frame.v.height - 1) :
           \E x1 \in 0..(frame.v.width - 1), x2 \in 0..(frame.v.width - 1) :
               /\ frame.v.written[y][x1] = None
               /\ frame.v.written[y][x2] # None
               /\ pixel_at(frame.v.canvas, x2, y) # BLACK


\* C23: normalizing a vector of magnitude zero surfaces an explicit domain
\* error (the call fails) instead of returning a tuple whose components are NaN
\* or infinite.
C23_NormalizeZeroIsDomainError ==
    (call.fn = "normalize" /\ magnitude(call.self) = 0) =>
        (call.result.panic /\ ~call.result.nan)


-----------------------------------------------------------------------------
(* Hit selection among equal distances *)

\* C24: when several intersections of the list handed to Intersections::new
\* share the smallest non-negative t, the hit is the one that comes first in
\* the list; extend keeps the receiver's hit when the receiver's hit and the
\* argument's hit have equal t.
C24_TiesKeepFirst ==
    /\ last.op = "new" =>
           LET r == last.items
               cand == {i \in 1..Len(r) : r[i].t >= 0}
               lowest == {i \in cand : \A j \in cand : r[i].t <= r[j].t}
           IN  cand # {} =>
                   hit(xs) = Some(r[CHOOSE i \in lowest : \A j \in lowest : i <= j])
    /\ last.op = "extend" =>
           ((hit(last.a).some /\ hit(last.b).some
                /\ hit(last.a).v.t = hit(last.b).v.t)
            => hit(xs) = hit(last.a))

\* The receiver holds two intersections of equal t on different shapes, its
\* hit being the first of them, and the argument's hit has the same t on the
\* other shape: the receiver's hit stays.
C24_Witness ==
    /\ last.op = "extend"
    /\ len(last.a) = 2
    /\ last.a.inner[1].t = last.a.inner[2].t
    /\ last.a.inner[1].object # last.a.inner[2].object
    /\ hit(last.a) = Some(last.a.inner[1])
    /\ hit(last.b).some
    /\ hit(last.b).v.t = hit(last.a).v.t
    /\ hit(last.b).v.object # hit(last.a).v.object
    /\ hit(xs) = hit(last.a)


-----------------------------------------------------------------------------
(* Shading and the light of the world *)

\* The world with the object of the precomputed data as its only object.
OwnSurfaceOnly(w, c) == [w EXCEPT !.objects = <<c.object>>]

\* The point lies on the surface of the shape: in object space it is at
\* distance 1 from the origin for a sphere, at y = 0 for a plane.
OnSurface(shape, world_point) ==
    LET p == Matrix_mul_tuple(inverse_transformation(shape), world_point)
    IN  IF shape.kind = "sphere" THEN Mul(p.x, p.x) + Mul(p.y, p.y) + Mul(p.z, p.z) = Scale
        ELSE p.y = 0

\* The point of the precomputed data lies on a surface the light of the world
\* shines on: it is on the surface, the light is on the side the final normal
\* points to, and the surface is not the inner side of a sphere (the lights
\* of the worlds are inside no sphere, so the inner side of a sphere is never
\* lit).
OnLitSurface(w, c) ==
    /\ OnSurface(c.object, c.point)
    /\ LightDotNormalOf([light |-> w.light.v, point |-> c.point,
                         normalv |-> c.normalv]) > 0
    /\ (c.object.kind = "sphere" => ~c.inside)

-----------------------------------------------------------------------------
(* The object of an intersection *)

\* C26: every intersection returned by shape.intersect(ray), the hit
\* included, carries an object equal to the shape that was intersected: the
\* copy of a sphere keeps its index, the copy of a plane is equal field by
\* field.
C26_IntersectionCarriesItsShape ==
    (call.fn = "intersect" /\ ~call.result.panic) =>
        /\ \A i \in 1..len(call.result.v) :
               Shape_eq(call.result.v.inner[i].object, call.target)
        /\ hit(call.result.v).some =>
               Shape_eq(hit(call.result.v).v.object, call.target)

\* The translated sphere of index 1 is intersected twice by the ray, and both
\* intersections carry a sphere of index 1.
C26_Witness ==
    /\ call.fn = "intersect"
    /\ ~call.result.panic
    /\ call.target.kind = "sphere"
    /\ call.target.index = 1
    /\ call.target.transform # IDENTITY_MATRIX
    /\ len(call.result.v) = 2
    /\ hit(call.result.v).some
    /\ call.result.v.inner[2].object.index = 1


-----------------------------------------------------------------------------
(* color.rs: the PPM text of a canvas. A String is a sequence of characters,
   the file content a sequence of Strings. *)

\* Widest canvas written out.
MaxPpmWidth == 6

\* Tallest canvas written out.
MaxPpmHeight == 2

DigitChars == <<"0", "1", "2", "3", "4", "5", "6", "7", "8", "9">>

RECURSIVE Digits(_)
\* format!("{}", n) of an unsigned integer: its decimal digits.
Digits(n) ==
    IF n < 10 THEN <<DigitChars[n + 1]>>
    ELSE Digits(n \div 10) \o <<DigitChars[(n % 10) + 1]>>

\* num::clamp(input, min, max)
num_clamp(input, min, max) ==
    IF input < min THEN min ELSE IF input > max THEN max ELSE input

\* Canvas::ppm_color(color_value)
ppm_color(color_value) == Digits(as_u8(num_clamp(color_value * 256, 0, 255 * Scale)))

\* Canvas::ppm_header: the three lines pushed to the file content.
ppm_header(self, file_content) ==
    file_content \o << <<"P", "3", "\n">>,
                       Digits(self.width) \o <<" ">> \o Digits(self.height) \o <<"\n">>,
                       <<"2", "5", "5", "\n">> >>

\* ppm_add_string_to_row that closes the row only when it would pass 70
\* characters.
ppm_add_string_to_row_gt(row, segment, file_content) ==
    IF Len(row) + Len(segment) > 70
    THEN [row |-> segment, file_content |-> Append(file_content, row \o <<"\n">>)]
    ELSE IF Len(row) > 0
    THEN [row |-> row \o <<" ">> \o segment, file_content |-> file_content]
    ELSE [row |-> segment, file_content |-> file_content]

\* ppm_add_string_to_row that loses the segment that closes a row.
ppm_add_string_to_row_drop(row, segment, file_content) ==
    IF Len(row) + Len(segment) >= 70
    THEN [row |-> <<>>, file_content |-> Append(file_content, row \o <<"\n">>)]
    ELSE IF Len(row) > 0
    THEN [row |-> row \o <<" ">> \o segment, file_content |-> file_content]
    ELSE [row |-> segment, file_content |-> file_content]

\* Canvas::ppm_add_string_to_row(row, segment, file_content): the row and the
\* file content afterwards.
ppm_add_string_to_row(row, segment, file_content) ==
    IF Len(row) + Len(segment) >= 70
    THEN [row |-> segment, file_content |-> Append(file_content, row \o <<"\n">>)]
    ELSE IF Len(row) > 0
    THEN [row |-> row \o <<" ">> \o segment, file_content |-> file_content]
    ELSE [row |-> segment, file_content |-> file_content]

\* The three calls of one pass of the loop of ppm_row, for the pixel c.
ppm_add_pixel(st, c) ==
    LET s1 == ppm_add_string_to_row(st.row, ppm_color(c.r), st.file_content)
        s2 == ppm_add_string_to_row(s1.row, ppm_color(c.g), s1.file_content)
    IN  ppm_add_string_to_row(s2.row, ppm_color(c.b), s2.file_content)

\* e, with v computed first: a loop holds the value of each pass, not a chain
\* of pending passes.
Computed(v, e) == IF v = v THEN e ELSE e

RECURSIVE ppm_row_from(_, _, _, _)
\* The loop of ppm_row from the given column on.
ppm_row_from(self, row, column, st) ==
    IF column >= self.width THEN st
    ELSE LET next == ppm_add_pixel(st, self.canvas[row][column])
         IN  Computed(next, ppm_row_from(self, row, column + 1, next))

\* Canvas::ppm_row(&self, file_content, row): the file content afterwards.
ppm_row(self, file_content, row) ==
    LET st == ppm_row_from(self, row, 0, [row |-> <<>>, file_content |-> file_content])
    IN  IF Len(st.row) > 0 THEN Append(st.file_content, st.row \o <<"\n">>)
        ELSE st.file_content

RECURSIVE ppm_rows_from(_, _, _)
\* The loop of canvas_to_ppm from the given row on.
ppm_rows_from(self, file_content, row) ==
    IF row >= self.height THEN file_content
    ELSE LET next == ppm_row(self, file_content, row)
         IN  Computed(next, ppm_rows_from(self, next, row + 1))

\* Canvas::canvas_to_ppm(&self)
canvas_to_ppm(self) == ppm_rows_from(self, ppm_header(self, <<>>), 0)

\* The colors on the canvases: components above 1 and below 0 among them,
\* values of one, two and three digits.
PpmColors ==
    { Color_new((3 * Scale) \div 2, (8 * Scale) \div 10, (6 * Scale) \div 10),
      Color_new(Scale, Scale \div 2, (5 * Scale) \div 100),
      Color_new(0, (5 * Scale) \div 100, -(Scale \div 2)) }

\* The canvases written out: the first row in one color up to some column and
\* in another from there on, the further rows in one color.
PpmCanvases ==
    { [width |-> width, height |-> height,
       canvas |-> [y \in 0..(height - 1) |->
                      [x \in 0..(width - 1) |->
                          IF y > 0 THEN rest ELSE IF x < k THEN left ELSE right]]] :
        <<width, height, k, left, right, rest>> \in
            (1..MaxPpmWidth) \X (1..MaxPpmHeight) \X (0..MaxPpmWidth)
                \X PpmColors \X PpmColors \X PpmColors }

\* canvas.canvas_to_ppm()
CanvasToPpm ==
    \E canvas \in PpmCanvases :
        /\ call = NoCall
        /\ call' = [fn |-> "canvas_to_ppm", self |-> canvas,
                    result |-> canvas_to_ppm(canvas)]
        /\ UNCHANGED <<xs, last, world, sphere_count, built, tasks, frame>>

NextPpm == CanvasToPpm \/ Return

SpecPpm == InitCalls /\ [][NextPpm]_vars

\* The line without its last character.
Content(line) == SubSeq(line, 1, Len(line) - 1)

RECURSIVE Tokens(_)
\* The values of a line content: its pieces between the spaces.
Tokens(s) ==
    IF s = <<>> THEN <<>>
    ELSE LET sp == {i \in 1..Len(s) : s[i] = " "}
         IN  IF sp = {} THEN <<s>>
             ELSE LET k == CHOOSE i \in sp : \A j \in sp : i <= j
                  IN  <<SubSeq(s, 1, k - 1)>> \o Tokens(SubSeq(s, k + 1, Len(s)))

\* The data lines of a file content: what follows the three header lines.
DataLines(file_content) == SubSeq(file_content, 4, Len(file_content))

RECURSIVE TokensOfLines(_)
TokensOfLines(lines) ==
    IF lines = <<>> THEN <<>>
    ELSE Tokens(Content(Head(lines))) \o TokensOfLines(Tail(lines))

\* The number of values on the first n data lines.
TokenCount(lines, n) == Len(TokensOfLines(SubSeq(lines, 1, n)))

RECURSIVE JoinedLen(_, _)
\* The length of the first k values of a line joined by single spaces.
JoinedLen(tokens, k) ==
    IF k = 0 THEN 0
    ELSE IF k = 1 THEN Len(tokens[1])
    ELSE JoinedLen(tokens, k - 1) + 1 + Len(tokens[k])

\* The byte of a color component: 0 below 0, 255 from 1 on, else floor(c * 256).
ByteOf(v) == IF v < 0 THEN 0 ELSE IF v >= Scale THEN 255 ELSE (v * 256) \div Scale

\* The values of the canvas in row-major order, r, g, b of each pixel, as
\* decimal text.
RowMajorValues(self) ==
    [n \in 1..(3 * self.width * self.height) |->
        LET p == (n - 1) \div 3
            c == self.canvas[p \div self.width][p % self.width]
        IN  Digits(ByteOf(IF (n - 1) % 3 = 0 THEN c.r
                          ELSE IF (n - 1) % 3 = 1 THEN c.g ELSE c.b))]

\* C27: every line canvas_to_ppm produces ends with a newline and holds at
\* most 70 characters before it; within a canvas row a data line is closed and
\* a new one started exactly when adding the next value would reach 70
\* characters.
C27_PpmLinesAtMost70 ==
    call.fn = "canvas_to_ppm" =>
        LET lines == call.result
            data == DataLines(lines)
            perRow == 3 * call.self.width
        IN  /\ \A i \in 1..Len(lines) :
                   /\ Len(lines[i]) >= 1
                   /\ lines[i][Len(lines[i])] = "\n"
                   /\ \A k \in 1..(Len(lines[i]) - 1) : lines[i][k] # "\n"
                   /\ Len(lines[i]) - 1 <= 70
            /\ \A i \in 1..Len(data) :
                   LET tokens == Tokens(Content(data[i]))
                   IN  /\ \A k \in 2..Len(tokens) :
                              JoinedLen(tokens, k - 1) + Len(tokens[k]) < 70
                       /\ (i < Len(data) /\ TokenCount(data, i) % perRow # 0) =>
                              Len(Content(data[i]))
                                  + Len(Tokens(Content(data[i + 1]))[1]) >= 70

\* A first canvas row that fills one line of exactly 70 characters, and a
\* second one that is closed after 17 values, its last value on a line of
\* its own.
C27_Witness ==
    /\ call.fn = "canvas_to_ppm"
    /\ call.self.height = 2
    /\ Len(call.result) = 6
    /\ Len(call.result[4]) - 1 = 70
    /\ Len(Tokens(Content(call.result[4]))) = 18
    /\ Len(Tokens(Content(call.result[5]))) = 17
    /\ Len(call.result[5]) - 1 = 67
    /\ Len(Tokens(Content(call.result[6]))) = 1

\* C28: canvas_to_ppm emits the header lines P3, width and height, 255, then
\* exactly the red, green and blue values of every pixel in row-major order,
\* each canvas row starting on a new line; splitting a long row drops,
\* duplicates and reorders nothing.
C28_PpmHoldsEveryValueInOrder ==
    call.fn = "canvas_to_ppm" =>
        LET lines == call.result
            data == DataLines(lines)
            perRow == 3 * call.self.width
        IN  /\ Len(lines) >= 3
            /\ lines[1] = <<"P", "3", "\n">>
            /\ lines[2] = Digits(call.self.width) \o <<" ">>
                              \o Digits(call.self.height) \o <<"\n">>
            /\ lines[3] = <<"2", "5", "5", "\n">>
            /\ TokensOfLines(data) = RowMajorValues(call.self)
            /\ \A y \in 1..call.self.height :
                   \E i \in 1..Len(data) : TokenCount(data, i) = y * perRow

\* A canvas of two rows whose first row is split after its 17th value: the
\* 18th value opens the next line, the second row the line after it.
C28_Witness ==
    /\ call.fn = "canvas_to_ppm"
    /\ call.self.width = 6
    /\ call.self.height = 2
    /\ Len(call.result) = 6
    /\ Len(Tokens(Content(call.result[4]))) = 17
    /\ Len(Tokens(Content(call.result[5]))) = 1
    /\ Len(Tokens(Content(call.result[6]))) = 18


-----------------------------------------------------------------------------
(* sphere.rs: the identity of spheres built by several threads *)

\* Most spheres made in one run, clones included.
MaxMade == 3

\* A fetch_add whose store is lost: the counter keeps its value.
fetch_add_lost_store(count, val) == [previous |-> count, count |-> count]

\* AtomicUsize::fetch_add(val, Ordering::SeqCst): one indivisible step that
\* returns the previous value and stores the sum.
fetch_add(count, val) == [previous |-> count, count |-> count + val]

\* A thread enters Sphere::new(None, transform) or Sphere::default() and
\* evaluates the first field, index: SPHERE_COUNT.fetch_add(1, SeqCst).
SphereFetchIndex ==
    \E fn \in {"Sphere::new", "Sphere::default"},
       transform \in {None, Some(translation(0, Scale, 0)), Some(SingularTransform)} :
        /\ Len(tasks) < MaxMade
        /\ fn = "Sphere::default" => transform = None
        /\ tasks' = Append(tasks, [pc |-> "fields", fn |-> fn, transform |-> transform,
                                   index |-> fetch_add(sphere_count, 1).previous,
                                   origin |-> Len(tasks) + 1])
        /\ sphere_count' = fetch_add(sphere_count, 1).count
        /\ UNCHANGED <<xs, last, world, call, built, frame>>

\* The thread evaluates the other fields and returns the sphere, or panics on
\* the inverse of the transform; the threads finish in any order.
SphereReturn ==
    \E i \in 1..Len(tasks) :
        /\ tasks[i].pc = "fields"
        /\ LET r == Sphere_new(tasks[i].index, None, tasks[i].transform)
           IN  tasks' = [tasks EXCEPT ![i] =
                            IF r.panic
                            THEN [pc |-> "panicked", fn |-> tasks[i].fn, origin |-> i]
                            ELSE [pc |-> "built", fn |-> tasks[i].fn, origin |-> i,
                                  object |-> r.v]]
        /\ UNCHANGED <<xs, last, world, call, sphere_count, built, frame>>

\* sphere.clone() of a sphere that was returned; origin is the constructor
\* call the cloned sphere goes back to.
SphereClone ==
    \E i \in 1..Len(tasks) :
        /\ Len(tasks) < MaxMade
        /\ tasks[i].pc = "built"
        /\ LET r == Shape_clone(tasks[i].object, sphere_count)
           IN  /\ tasks' = Append(tasks, [pc |-> "built", fn |-> "clone",
                                          origin |-> tasks[i].origin,
                                          object |-> r.object])
               /\ sphere_count' = r.count
        /\ UNCHANGED <<xs, last, world, call, built, frame>>

NextSpheres == SphereFetchIndex \/ SphereReturn \/ SphereClone

SpecSpheres == InitCalls /\ [][NextSpheres]_vars

\* C29: every sphere made by Sphere::new or Sphere::default gets an id
\* different from the id of every other constructed sphere, also when the
\* constructors run in several threads at once; a clone keeps the id of its
\* original. A sphere therefore equals its clones and no separately
\* constructed sphere.
C29_SphereIdsAreUnique ==
    /\ \A i, j \in 1..Len(tasks) :
           (i # j /\ tasks[i].pc = "fields" /\ tasks[j].pc = "fields")
               => tasks[i].index # tasks[j].index
    /\ \A i, j \in 1..Len(tasks) :
           (tasks[i].pc = "built" /\ tasks[j].pc = "built") =>
               /\ (tasks[i].origin = tasks[j].origin)
                      = (tasks[i].object.index = tasks[j].object.index)
               /\ Shape_eq(tasks[i].object, tasks[j].object)
                      = (tasks[i].origin = tasks[j].origin)
    /\ \A i, j \in 1..Len(tasks) :
           (tasks[i].pc = "fields" /\ tasks[j].pc = "built")
               => tasks[i].index # tasks[j].object.index

\* A thread has fetched its index and is still inside the constructor while
\* a thread that fetched later has returned its sphere and that sphere has
\* been cloned: the clone equals its original, and the index of the first
\* thread is another one.
C29_Witness ==
    /\ Len(tasks) = 3
    /\ tasks[1].pc = "fields"
    /\ tasks[2].pc = "built"
    /\ tasks[3].fn = "clone"
    /\ tasks[3].origin = 2
    /\ Shape_eq(tasks[3].object, tasks[2].object)
    /\ tasks[1].index # tasks[2].object.index


-----------------------------------------------------------------------------
(* A world without a light *)

\* C30: for a World whose light is absent, color_at(ray) returns BLACK without
\* failing when the ray has no hit and fails on the missing light exactly when
\* the ray has a hit; is_shadowed and shade_hit always fail on such a world.
C30_LightlessWorldFailsOnlyOnHit ==
    world.light = None =>
        /\ call.fn = "color_at" =>
               LET xs0 == World_intersect(world, call.ray).v
               IN  /\ hit(xs0) = None => call.result = Ok(BLACK)
                   /\ call.result.panic = (hit(xs0) # None)
                   /\ \A n \in 1..len(xs0) :
                          shade_hit(world, prepare_computations(xs0.inner[n],
                                                                call.ray)).panic
        /\ call.fn = "is_shadowed" => call.result.panic

\* color_at on the world of one sphere and no light, for a ray that hits the
\* sphere: the call fails.
C30_Witness ==
    /\ world.light = None
    /\ Len(world.objects) = 1
    /\ call.fn = "color_at"
    /\ hit(World_intersect(world, call.ray).v) # None
    /\ call.result.panic
=============================================================================
